---- MODULE Spec2Model ----
(***************************************************************************)
(* A model of the TEN runtime extension context                            *)
(* (core/src/ten_runtime/extension_context/extension_context.c): the start *)
(* of a graph's extension groups and the close protocol of the context.    *)
(* All handlers of the context run on the engine thread, so every handler  *)
(* is one atomic action.                                                   *)
(* SpecAnyCalls lets the owner call close and on_close in any order.       *)
(* Further parts have specifications of their own: the log call of the     *)
(* Python ten_env_tester binding (SpecTester, SpecTesterFair), the two     *)
(* extensions of the long_running ping-pong test (SpecPingPong,            *)
(* SpecPingPongFair, SpecOrder), the lifecycle of an extension             *)
(* (SpecLifecycle), the logger of the log tests (SpecLogger, SpecMatcher)  *)
(* and the lookup of an extension info (SpecLookup).                       *)
(***************************************************************************)
EXTENDS Integers, Sequences, FiniteSets, TLC

\* ------------------------------------------------------------------------
\* Bounds of the model.

\* Longest extension_groups_info list of a StartGraph command.
MaxGroups == 2

\* Largest indeterminate value read from the field that
\* ten_extension_context_create leaves uninitialised.
MaxGarbage == 2

\* Number of times the owner calls ten_extension_context_close.
MaxCloseCalls == 2

\* ------------------------------------------------------------------------
\* Values of the program.

TEN_STR_DEFAULT_EXTENSION_GROUP == "default_extension_group"

\* The URI of the app the engine belongs to, and the URI of a remote app.
ThisAppUri == "msgpack://app_a/"

OtherAppUri == "msgpack://app_b/"

AppUris == {ThisAppUri, OtherAppUri}

\* The graph id of the engine.
ThisGraphId == "graph_1"

\* Addon names a group info may carry; the last one is not registered.
GroupAddonNames == {TEN_STR_DEFAULT_EXTENSION_GROUP, "custom_group", "does_not_exist"}

RegisteredGroupAddons == {TEN_STR_DEFAULT_EXTENSION_GROUP, "custom_group"}

TEN_ERROR_CODE_OK == "OK"

TEN_ERROR_CODE_GENERIC == "Generic"

\* The builds of the runtime: a failed TEN_ASSERT aborts the process in a
\* debug build and lets the handler continue in a release build.
Builds == {"debug", "release"}

\* ------------------------------------------------------------------------
\* State.

VARIABLES
  build,     \* the build the process runs
  cmd,       \* engine->original_start_graph_cmd_of_enabling_engine
  ctx,       \* the ten_extension_context_t of the engine
  groups,    \* the extension groups created so far, by request index
  threads,   \* the extension threads created so far, by request index
  requests,  \* the create_extension_group requests issued, in order
  pending,   \* indices of the requests whose done callback has not run
  eng,       \* the engine side: its ten_env, the owner callback, the log
  op,        \* the handler that ran last, with what it saw on entry
  tester,    \* the Python ten_env_tester binding and the tester thread
  pingpong,  \* the two extensions of the ping-pong graph
  lifecycle, \* an extension thread walking its extension through the phases
  logger     \* the log handlers of the app, their sinks, the logging threads

vars == <<build, cmd, ctx, groups, threads, requests, pending, eng, op,
          tester, pingpong, lifecycle, logger>>

\* The lifecycle callbacks of an extension, in the order the thread runs them.
Phases == <<"on_configure", "on_init", "on_start", "on_stop", "on_deinit">>

PhaseNames == {Phases[i] : i \in DOMAIN Phases}

\* An extension thread that has not yet called any callback of its extension.
LifecycleInit(extension) ==
  [extension |-> extension,
   current |-> 0,
   entered |-> [X \in PhaseNames |-> 0],
   acks |-> [X \in PhaseNames |-> 0],
   rejected |-> <<>>,
   stop_requested |-> FALSE,
   log_lines |-> 0,
   cmds_sent |-> 0,
   aborted |-> FALSE]

LifecycleIdle == LifecycleInit("none")

\* The threads that log: the app thread (the runtime) and the thread of the
\* extension.
LogThreads == {"app_thread", "extension_thread"}

\* The logger the app builds from the handlers of its property: one sink per
\* distinct path, nothing written, no thread logging.
LoggerInit(handlers) ==
  [handlers |-> handlers,
   sinks |-> [p \in {handlers[i].path : i \in DOMAIN handlers} |->
                [lock |-> "none", file |-> <<>>]],
   threads |-> [t \in LogThreads |-> [todo |-> <<>>, h |-> 0, pc |-> "idle"]],
   emitted |-> 0,
   on_cmd_calls |-> 0,
   on_cmd_results |-> 0]

LoggerIdle == LoggerInit(<<>>)

\* The Python binding of a tester that runs: its proxy is set, no log call
\* was made, nothing waits in the inbox of the tester thread, nobody holds
\* the GIL.
TesterInit ==
  [c_ten_env_tester_proxy |-> TRUE,
   calls |-> <<>>,
   inbox |-> <<>>,
   logs |-> <<>>,
   gil |-> "none"]

\* The ping-pong graph before on_start of extension_1: cnt{0}, no command
\* sent.
PingPongInit ==
  [started |-> FALSE,
   cnt |-> 0,
   cmds |-> <<>>,
   inbox_1 |-> <<>>,
   inbox_2 |-> <<>>,
   app_inbox |-> <<>>,
   app_closing |-> FALSE,
   submitted |-> 0]

\* ------------------------------------------------------------------------
\* Helpers on lists.

RECURSIVE SeqToSet(_)
SeqToSet(s) == IF s = <<>> THEN {} ELSE {Head(s)} \cup SeqToSet(Tail(s))

\* ten_list_remove_ptr: removes the first node that holds ptr.
RECURSIVE RemovePtr(_, _)
RemovePtr(s, ptr) ==
  IF s = <<>> THEN <<>>
  ELSE IF Head(s) = ptr THEN Tail(s)
  ELSE <<Head(s)>> \o RemovePtr(Tail(s), ptr)

\* A push that drops what the list held.
ten_list_push_ptr_back_overwrites(s, ptr) == <<ptr>>

\* ten_list_push_ptr_back: a new node holding ptr at the end of the list.
ten_list_push_ptr_back(s, ptr) == Append(s, ptr)

\* Number of nodes of a list that hold ptr.
RECURSIVE CountPtr(_, _)
CountPtr(s, ptr) ==
  IF s = <<>> THEN 0
  ELSE (IF Head(s) = ptr THEN 1 ELSE 0) + CountPtr(Tail(s), ptr)

\* ------------------------------------------------------------------------
\* The StartGraph command.

GroupInfo(i, app, addon) ==
  [app_uri |-> app,
   extension_group_addon_name |-> addon,
   extension_group_instance_name |-> "group_" \o ToString(i)]

\* One extension is scheduled into every group of the graph.
ExtensionInfo(i, g) ==
  [app_uri |-> g.app_uri,
   graph_id |-> ThisGraphId,
   extension_name |-> "ext_" \o ToString(i),
   extension_addon_name |-> "ext_addon_" \o ToString(i),
   extension_group_name |-> g.extension_group_instance_name]

\* The group info lists of length n.
GroupLists(n) ==
  {[i \in 1..n |-> GroupInfo(i, f[i][1], f[i][2])] :
     f \in [1..n -> AppUris \X GroupAddonNames]}

StartGraphCmds ==
  {[extension_groups_info |-> gl,
    extensions_info |-> [i \in 1..Len(gl) |-> ExtensionInfo(i, gl[i])]] :
     gl \in UNION {GroupLists(n) : n \in 0..MaxGroups}}

\* A count of the groups of app_uri whose addon is found.
RECURSIVE extension_groups_cnt_of_resolvable_groups(_, _)
extension_groups_cnt_of_resolvable_groups(infos, app_uri) ==
  IF infos = <<>> THEN 0
  ELSE (IF /\ Head(infos).app_uri = app_uri
           /\ Head(infos).extension_group_addon_name
                \in {"default_extension_group", "custom_group"}
        THEN 1 ELSE 0)
       + extension_groups_cnt_of_resolvable_groups(Tail(infos), app_uri)

\* The number of group infos of the list that are located in app_uri
\* (the counting loop of ten_extension_context_create_extension_group_done).
RECURSIVE extension_groups_cnt_of_the_current_app(_, _)
extension_groups_cnt_of_the_current_app(infos, app_uri) ==
  IF infos = <<>> THEN 0
  ELSE (IF Head(infos).app_uri = app_uri THEN 1 ELSE 0)
       + extension_groups_cnt_of_the_current_app(Tail(infos), app_uri)

\* The (extension addon name, extension instance name) pairs the command
\* schedules into the group extension_group_name of (app_uri, graph_id).
RECURSIVE get_extension_addon_and_instance_name_pairs(_, _, _, _)
get_extension_addon_and_instance_name_pairs(infos, app_uri, graph_id, extension_group_name) ==
  IF infos = <<>> THEN <<>>
  ELSE LET e == Head(infos)
           rest == get_extension_addon_and_instance_name_pairs(
                     Tail(infos), app_uri, graph_id, extension_group_name)
       IN IF /\ e.app_uri = app_uri
             /\ e.graph_id = graph_id
             /\ e.extension_group_name = extension_group_name
          THEN <<<<e.extension_addon_name, e.extension_name>>>> \o rest
          ELSE rest

\* ------------------------------------------------------------------------
\* The extension context and the engine around it.

\* A null ten_extension_group_info_t pointer.
NullInfo == [null |-> TRUE]

NoError == [code |-> TEN_ERROR_CODE_OK, msg |-> ""]

\* ten_extension_context_create; total_cnt is the value malloc left in
\* extension_threads_total_cnt, which the function does not set.
ten_extension_context_create(total_cnt) ==
  [signature |-> TRUE,
   on_closed |-> FALSE,
   extension_groups_info_from_graph |-> <<>>,
   extensions_info_from_graph |-> <<>>,
   extension_threads |-> <<>>,
   extension_threads_cnt_of_ready |-> 0,
   extension_threads_cnt_of_closed |-> 0,
   extension_threads_total_cnt |-> total_cnt]

\* What the engine and the observers of the context hold.
EngineInit ==
  [ten_env_close_calls |-> 0,      \* calls of ten_env_close(engine->ten_env)
   on_closed_calls |-> 0,          \* invocations of the on_closed callback
   on_closed_saw_signature |-> <<>>, \* the signature each invocation saw
   destroy_calls |-> 0,            \* completed ten_extension_context_destroy
   events |-> <<>>,                \* the steps of the terminal step, in order
   context_close_calls |-> 0,      \* calls of ten_extension_context_close
   context_start_calls |-> 0,      \* calls of ten_extension_context_start
   graph_resources_logged |-> 0,   \* [graph resources] lines written
   start_called |-> FALSE,         \* start_extension_group was called
   start_result |-> FALSE,         \* and what it returned
   err_given |-> FALSE,            \* the caller passed a ten_error_t
   err |-> NoError,                \* the ten_error_t of the caller
   trace |-> <<>>,                 \* the steps of the start, in order
   callbacks |-> 0,                \* group-created callbacks that ran
   reports |-> 0,                  \* thread-closed reports handled
   failed |-> {},                  \* the TEN_ASSERTs that failed
   use_after_free |-> FALSE,       \* a handler ran on the freed context
   aborted |-> FALSE]              \* the process was aborted

\* The state a handler works on.
World ==
  [cmd |-> cmd, ctx |-> ctx, groups |-> groups, threads |-> threads,
   requests |-> requests, pending |-> pending, eng |-> eng]

\* TEN_ASSERT(cond, ...): a failed assertion is recorded; it aborts the
\* process in a debug build and is passed over in a release build.
TEN_ASSERT(w, cond, name) ==
  IF cond THEN w
  ELSE [w EXCEPT !.eng.failed = @ \cup {name},
                 !.eng.aborted = (build = "debug")]

AssertDestroyEmpty == "destroy: extension_threads is empty"

AssertDoCloseEmpty == "do_close: extension_threads is empty"

AssertExtensionsInfoEmpty == "add_extensions_info_from_graph: list is empty"

AssertGroupsInfoEmpty == "add_extension_groups_info_from_graph: list is empty"

AssertGroupInfoFound == "create_extension_group_done: extension_group_info"

\* ten_extension_thread_create and
\* ten_extension_thread_attach_to_context_and_group.
ten_extension_thread_create(extension_group) ==
  [extension_context |-> "extension_context",
   extension_group |-> extension_group,
   start_calls |-> 0,
   close_calls |-> 0,
   reclaimed |-> FALSE]

\* ten_extension_thread_start and ten_extension_thread_close, as far as the
\* extension context sees them: the calls are counted per thread.
ten_extension_thread_start(t) == [t EXCEPT !.start_calls = @ + 1]

ten_extension_thread_close(t) == [t EXCEPT !.close_calls = @ + 1]

\* ten_list_foreach (&self->extension_threads, iter) { start(...) }
RECURSIVE StartEach(_, _)
StartEach(ths, list) ==
  IF list = <<>> THEN ths
  ELSE StartEach([ths EXCEPT ![Head(list)] = ten_extension_thread_start(@)],
                 Tail(list))

\* A loop that closes the first thread of the list only.
CloseEach_first_only(ths, list) ==
  IF list = <<>> THEN ths
  ELSE [ths EXCEPT ![Head(list)] = ten_extension_thread_close(@)]

\* ten_list_foreach (&self->extension_threads, iter) { close(...) }
RECURSIVE CloseEach(_, _)
CloseEach(ths, list) ==
  IF list = <<>> THEN ths
  ELSE CloseEach([ths EXCEPT ![Head(list)] = ten_extension_thread_close(@)],
                 Tail(list))

ten_extension_context_destroy(w) ==
  LET w1 == TEN_ASSERT(w, Len(w.ctx.extension_threads) = 0, AssertDestroyEmpty)
  IN IF w1.eng.aborted THEN w1
     ELSE [w1 EXCEPT !.ctx.extension_groups_info_from_graph = <<>>,
                     !.ctx.extensions_info_from_graph = <<>>,
                     !.ctx.signature = FALSE,
                     !.eng.destroy_calls = @ + 1,
                     !.eng.events = Append(@, "destroy")]

ten_extension_context_start(w) ==
  [w EXCEPT !.threads = StartEach(@, w.ctx.extension_threads),
            !.eng.context_start_calls = @ + 1,
            !.eng.trace = Append(@, "start")]

\* A terminal step that destroys the context before it tells the owner.
do_close_after_all_extension_threads_are_closed_destroy_first(w) ==
  LET w1 == [w EXCEPT !.eng.ten_env_close_calls = @ + 1,
                      !.eng.events = Append(@, "ten_env_close")]
      w2 == ten_extension_context_destroy(w1)
  IN IF w2.eng.aborted \/ ~w.ctx.on_closed THEN w2
     ELSE [w2 EXCEPT !.eng.on_closed_calls = @ + 1,
                     !.eng.on_closed_saw_signature = Append(@, w2.ctx.signature),
                     !.eng.events = Append(@, "on_closed")]

ten_extension_context_do_close_after_all_extension_threads_are_closed(w) ==
  LET w1 == [w EXCEPT !.eng.ten_env_close_calls = @ + 1,
                      !.eng.events = Append(@, "ten_env_close")]
      w2 == IF w1.ctx.on_closed
            THEN [w1 EXCEPT !.eng.on_closed_calls = @ + 1,
                            !.eng.on_closed_saw_signature =
                               Append(@, w1.ctx.signature),
                            !.eng.events = Append(@, "on_closed")]
            ELSE w1
  IN ten_extension_context_destroy(w2)

\* A close that does not reset the closed counter.
ten_extension_context_close_keeps_cnt_of_closed(w) ==
  IF Len(w.ctx.extension_threads) = 0
  THEN ten_extension_context_do_close_after_all_extension_threads_are_closed(w)
  ELSE [w EXCEPT !.ctx.extension_threads_total_cnt = Len(w.ctx.extension_threads),
                 !.threads = CloseEach(@, w.ctx.extension_threads)]

\* A close without the shortcut for a context that has no extension thread.
ten_extension_context_close_without_shortcut(w) ==
  [w EXCEPT !.ctx.extension_threads_cnt_of_closed = 0,
            !.ctx.extension_threads_total_cnt = Len(w.ctx.extension_threads),
            !.threads = CloseEach(@, w.ctx.extension_threads)]

ten_extension_context_close(w) ==
  IF Len(w.ctx.extension_threads) = 0
  THEN ten_extension_context_do_close_after_all_extension_threads_are_closed(w)
  ELSE [w EXCEPT !.ctx.extension_threads_cnt_of_closed = 0,
                 !.ctx.extension_threads_total_cnt = Len(w.ctx.extension_threads),
                 !.threads = CloseEach(@, w.ctx.extension_threads)]

ten_extension_context_could_be_close(c) ==
  c.extension_threads_cnt_of_closed = c.extension_threads_total_cnt

ten_extension_context_do_close(w) ==
  LET w1 == TEN_ASSERT(w, Len(w.ctx.extension_threads) = 0, AssertDoCloseEmpty)
  IN IF w1.eng.aborted THEN w1
     ELSE ten_extension_context_do_close_after_all_extension_threads_are_closed(w1)

ten_extension_context_on_close(w) ==
  IF ~ten_extension_context_could_be_close(w.ctx) THEN w
  ELSE ten_extension_context_do_close(w)

ten_extension_context_set_on_closed(w, on_closed) ==
  [w EXCEPT !.ctx.on_closed = on_closed]

\* An install that copies the list and leaves the command's list in place.
add_extensions_info_from_graph_copies(w) ==
  LET w1 == TEN_ASSERT(w, Len(w.ctx.extensions_info_from_graph) = 0,
                       AssertExtensionsInfoEmpty)
  IN IF w1.eng.aborted THEN w1
     ELSE [w1 EXCEPT !.ctx.extensions_info_from_graph = w1.cmd.extensions_info,
                     !.eng.trace = Append(@, "add_extensions_info")]

\* ten_list_swap(&self->extensions_info_from_graph, extensions_info) and its
\* sibling for the group infos; the list swapped with is the command's.
ten_extension_context_add_extensions_info_from_graph(w) ==
  LET w1 == TEN_ASSERT(w, Len(w.ctx.extensions_info_from_graph) = 0,
                       AssertExtensionsInfoEmpty)
  IN IF w1.eng.aborted THEN w1
     ELSE [w1 EXCEPT !.ctx.extensions_info_from_graph = w1.cmd.extensions_info,
                     !.cmd.extensions_info = w1.ctx.extensions_info_from_graph,
                     !.eng.trace = Append(@, "add_extensions_info")]

ten_extension_context_add_extension_groups_info_from_graph(w) ==
  LET w1 == TEN_ASSERT(w, Len(w.ctx.extension_groups_info_from_graph) = 0,
                       AssertGroupsInfoEmpty)
  IN IF w1.eng.aborted THEN w1
     ELSE [w1 EXCEPT !.ctx.extension_groups_info_from_graph =
                        w1.cmd.extension_groups_info,
                     !.cmd.extension_groups_info =
                        w1.ctx.extension_groups_info_from_graph,
                     !.eng.trace = Append(@, "add_extension_groups_info")]

\* The first group info of the list with this app_uri and instance name.
RECURSIVE ten_extension_context_get_extension_group_info_by_name(_, _, _)
ten_extension_context_get_extension_group_info_by_name(infos, app_uri, extension_group_name) ==
  IF infos = <<>> THEN NullInfo
  ELSE IF /\ Head(infos).app_uri = app_uri
          /\ Head(infos).extension_group_instance_name = extension_group_name
       THEN Head(infos)
       ELSE ten_extension_context_get_extension_group_info_by_name(
              Tail(infos), app_uri, extension_group_name)

ten_extension_context_log_graph_resources(w) ==
  [w EXCEPT !.eng.graph_resources_logged = @ + 1,
            !.eng.trace = Append(@, "log_graph_resources")]

\* ten_addon_create_extension_group: false when no extension group addon of
\* that name is registered; otherwise the group is created asynchronously
\* and the done callback runs later on the engine thread.
ten_addon_create_extension_group(addon_name) ==
  addon_name \in RegisteredGroupAddons

\* The destination of the StartGraph command: the graph of this engine.
dest_loc == [app_uri |-> ThisAppUri, graph_id |-> ThisGraphId]

\* The extension group the addon hands to the done callback of request req:
\* bound to nothing yet, with the pairs list its constructor initialised.
created_extension_group(req) ==
  [addon_host_name |-> req.addon_name,
   name |-> req.instance_name,
   app |-> "NULL",
   extension_context |-> "NULL",
   extension_addon_and_instance_name_pairs |-> <<>>,
   extension_thread |-> 0,
   extension_group_info |-> NullInfo]

\* A fill that does not look at the name of the addon.
fill_pairs_of_any_group(w, g) ==
  [g EXCEPT !.extension_addon_and_instance_name_pairs =
              get_extension_addon_and_instance_name_pairs(
                w.cmd.extensions_info, dest_loc.app_uri, dest_loc.graph_id,
                g.name)]

\* The default_extension_group branch of the done callback: the group takes
\* the pairs the command schedules into it; any other group is left as is.
fill_pairs_of_default_extension_group(w, g) ==
  IF g.addon_host_name = TEN_STR_DEFAULT_EXTENSION_GROUP
  THEN [g EXCEPT !.extension_addon_and_instance_name_pairs =
                   get_extension_addon_and_instance_name_pairs(
                     w.cmd.extensions_info, dest_loc.app_uri,
                     dest_loc.graph_id, g.name)]
  ELSE g

\* ten_extension_context_create_extension_group_done for the group that
\* request r asked for.
ten_extension_context_create_extension_group_done(w, r) ==
  LET req == w.requests[r]
      extension_group ==
        [fill_pairs_of_default_extension_group(
           w, [created_extension_group(req) EXCEPT
                 !.app = ThisAppUri,
                 !.extension_context = "extension_context"])
         EXCEPT !.extension_thread = r]
      w1 == [w EXCEPT !.groups = @ @@ (r :> extension_group),
                      !.threads = @ @@ (r :> ten_extension_thread_create(r)),
                      !.ctx.extension_threads = ten_list_push_ptr_back(@, r),
                      !.pending = @ \ {r},
                      !.eng.callbacks = @ + 1]
      cnt == extension_groups_cnt_of_the_current_app(
               w1.cmd.extension_groups_info, ThisAppUri)
      w2 == ten_extension_context_add_extensions_info_from_graph(w1)
      w3 == ten_extension_context_add_extension_groups_info_from_graph(w2)
      info == ten_extension_context_get_extension_group_info_by_name(
                w3.ctx.extension_groups_info_from_graph, ThisAppUri,
                req.instance_name)
      w4 == TEN_ASSERT([w3 EXCEPT !.groups[r].extension_group_info = info],
                       info # NullInfo, AssertGroupInfoFound)
      w5 == ten_extension_context_log_graph_resources(w4)
  IN IF cnt # Len(w1.ctx.extension_threads) THEN w1
     ELSE IF w2.eng.aborted THEN w2
     ELSE IF w3.eng.aborted THEN w3
     ELSE IF w4.eng.aborted THEN w4
     ELSE ten_extension_context_start(w5)

\* A loop that steps over a local group whose addon is not found.
RECURSIVE StartLoop_skips_unresolved(_, _, _)
StartLoop_skips_unresolved(w, infos, err_given) ==
  IF infos = <<>> THEN [w EXCEPT !.eng.start_result = TRUE]
  ELSE LET extension_group_info == Head(infos)
           addon_name == extension_group_info.extension_group_addon_name
       IN IF extension_group_info.app_uri = ThisAppUri /\
             ten_addon_create_extension_group(addon_name)
          THEN StartLoop_skips_unresolved(
                 [w EXCEPT !.requests =
                             Append(@, [addon_name |-> addon_name,
                                        instance_name |->
                                          extension_group_info.extension_group_instance_name]),
                           !.pending = @ \cup {Len(w.requests) + 1}],
                 Tail(infos), err_given)
          ELSE StartLoop_skips_unresolved(w, Tail(infos), err_given)

\* A loop that does not look at the app_uri of a group info.
RECURSIVE StartLoop_every_app(_, _, _)
StartLoop_every_app(w, infos, err_given) ==
  IF infos = <<>> THEN [w EXCEPT !.eng.start_result = TRUE]
  ELSE LET extension_group_info == Head(infos)
           addon_name == extension_group_info.extension_group_addon_name
       IN IF ten_addon_create_extension_group(addon_name)
          THEN StartLoop_every_app(
                 [w EXCEPT !.requests =
                             Append(@, [addon_name |-> addon_name,
                                        instance_name |->
                                          extension_group_info.extension_group_instance_name]),
                           !.pending = @ \cup {Len(w.requests) + 1}],
                 Tail(infos), err_given)
          ELSE [w EXCEPT !.eng.start_result = FALSE,
                         !.eng.err =
                            IF err_given
                            THEN [code |-> TEN_ERROR_CODE_GENERIC,
                                  msg |-> "Unable to find " \o addon_name]
                            ELSE @]

\* A loop that goes on to the groups declared after the one that failed.
RECURSIVE StartLoop_continues_after_failure(_, _, _)
StartLoop_continues_after_failure(w, infos, err_given) ==
  IF infos = <<>> THEN [w EXCEPT !.eng.start_result = TRUE]
  ELSE LET extension_group_info == Head(infos)
           addon_name == extension_group_info.extension_group_addon_name
       IN IF extension_group_info.app_uri = ThisAppUri
          THEN IF ten_addon_create_extension_group(addon_name)
               THEN StartLoop_continues_after_failure(
                      [w EXCEPT !.requests =
                                  Append(@, [addon_name |-> addon_name,
                                             instance_name |->
                                               extension_group_info.extension_group_instance_name]),
                                !.pending = @ \cup {Len(w.requests) + 1}],
                      Tail(infos), err_given)
               ELSE [StartLoop_continues_after_failure(w, Tail(infos),
                                                       err_given)
                     EXCEPT !.eng.start_result = FALSE,
                            !.eng.err =
                               IF err_given
                               THEN [code |-> TEN_ERROR_CODE_GENERIC,
                                     msg |-> "Unable to find " \o addon_name]
                               ELSE @]
          ELSE StartLoop_continues_after_failure(w, Tail(infos), err_given)

\* The loop of ten_extension_context_start_extension_group over the group
\* infos still to visit; err_given tells whether the caller passed an err.
RECURSIVE StartLoop(_, _, _)
StartLoop(w, infos, err_given) ==
  IF infos = <<>> THEN [w EXCEPT !.eng.start_result = TRUE]
  ELSE LET extension_group_info == Head(infos)
           addon_name == extension_group_info.extension_group_addon_name
       IN IF extension_group_info.app_uri = ThisAppUri
          THEN IF ten_addon_create_extension_group(addon_name)
               THEN StartLoop(
                      [w EXCEPT !.requests =
                                  Append(@, [addon_name |-> addon_name,
                                             instance_name |->
                                               extension_group_info.extension_group_instance_name]),
                                !.pending = @ \cup {Len(w.requests) + 1}],
                      Tail(infos), err_given)
               ELSE [w EXCEPT !.eng.start_result = FALSE,
                              !.eng.err =
                                 IF err_given
                                 THEN [code |-> TEN_ERROR_CODE_GENERIC,
                                       msg |-> "Unable to find " \o addon_name]
                                 ELSE @]
          ELSE StartLoop(w, Tail(infos), err_given)

\* A start that takes a graph without groups for a failure.
start_extension_group_rejects_empty_graph(w, err_given) ==
  LET w0 == [w EXCEPT !.eng.start_called = TRUE,
                      !.eng.err_given = err_given]
      extension_groups_info == w0.cmd.extension_groups_info
  IN IF extension_groups_info = <<>>
     THEN [w0 EXCEPT !.eng.start_result = FALSE]
     ELSE StartLoop(w0, extension_groups_info, err_given)

ten_extension_context_start_extension_group(w, err_given) ==
  LET w0 == [w EXCEPT !.eng.start_called = TRUE,
                      !.eng.err_given = err_given]
      extension_groups_info == w0.cmd.extension_groups_info
  IN IF extension_groups_info = <<>>
     THEN LET w1 == ten_extension_context_add_extensions_info_from_graph(w0)
              w2 == ten_extension_context_add_extension_groups_info_from_graph(w1)
          IN IF w1.eng.aborted THEN w1
             ELSE IF w2.eng.aborted THEN w2
             ELSE [ten_extension_context_start(w2) EXCEPT !.eng.start_result = TRUE]
     ELSE StartLoop(w0, extension_groups_info, err_given)

\* The engine's handler of a "thread closed" report of thread t: the thread
\* is reclaimed and taken off the list, the closed counter is incremented
\* and the context is asked whether it can close.
ten_engine_on_extension_thread_closed(w, t) ==
  ten_extension_context_on_close(
    [w EXCEPT !.ctx.extension_threads_cnt_of_closed = @ + 1,
              !.ctx.extension_threads = RemovePtr(@, t),
              !.threads[t].reclaimed = TRUE,
              !.eng.reports = @ + 1])

\* ------------------------------------------------------------------------
\* The state machine.

Init ==
  /\ build \in Builds
  /\ cmd \in StartGraphCmds
  /\ \E total_cnt \in 0..MaxGarbage : ctx = ten_extension_context_create(total_cnt)
  /\ groups = <<>>
  /\ threads = <<>>
  /\ requests = <<>>
  /\ pending = {}
  /\ eng = EngineInit
  /\ op = [name |-> "create", arg |-> 0]
  /\ tester = TesterInit
  /\ pingpong = PingPongInit
  /\ lifecycle = LifecycleIdle
  /\ logger = LoggerIdle

\* The handler named name, called with arg, took the state to w.
Becomes(w, name, arg) ==
  /\ cmd' = w.cmd
  /\ ctx' = w.ctx
  /\ groups' = w.groups
  /\ threads' = w.threads
  /\ requests' = w.requests
  /\ pending' = w.pending
  /\ eng' = w.eng
  /\ op' = [name |-> name, arg |-> arg]
  /\ UNCHANGED <<build, tester, pingpong, lifecycle, logger>>

\* The context exists and the process runs.
Alive == ctx.signature /\ ~eng.aborted

\* The engine registers (or clears) the callback of the owner.
SetOnClosed ==
  /\ Alive
  /\ \E on_closed \in BOOLEAN :
       /\ on_closed # ctx.on_closed
       /\ Becomes(ten_extension_context_set_on_closed(World, on_closed),
                  "set_on_closed", 0)

\* The engine starts the extension groups of the graph, once.
StartExtensionGroup ==
  /\ Alive
  /\ ~eng.start_called
  /\ \E err_given \in BOOLEAN :
       Becomes(ten_extension_context_start_extension_group(World, err_given),
               "start_extension_group", 0)

\* The addon finished the creation of the group of request r.
GroupCreated ==
  /\ Alive
  /\ \E r \in pending :
       Becomes(ten_extension_context_create_extension_group_done(World, r),
               "create_extension_group_done", r)

\* The creation of a group finishes after the context was destroyed: the
\* callback works on freed memory.  The behaviour is undefined from there
\* on; the run is followed no further.
GroupCreatedOnDestroyedContext ==
  /\ ~ctx.signature
  /\ ~eng.aborted
  /\ \E r \in pending :
       Becomes([World EXCEPT !.pending = @ \ {r},
                             !.eng.use_after_free = TRUE,
                             !.eng.aborted = TRUE],
               "create_extension_group_done", r)

\* The owner closes the context.
Close ==
  /\ Alive
  /\ eng.context_close_calls < MaxCloseCalls
  /\ Becomes(ten_extension_context_close(
               [World EXCEPT !.eng.context_close_calls = @ + 1]),
             "close", 0)

\* An extension thread that was told to close reports that it is closed.
ThreadClosed ==
  /\ Alive
  /\ \E t \in DOMAIN threads :
       /\ threads[t].close_calls > 0
       /\ ~threads[t].reclaimed
       /\ Becomes(ten_engine_on_extension_thread_closed(World, t),
                  "on_close", t)

Next ==
  \/ SetOnClosed
  \/ StartExtensionGroup
  \/ GroupCreated
  \/ GroupCreatedOnDestroyedContext
  \/ Close
  \/ ThreadClosed

Spec == Init /\ [][Next]_vars

\* ------------------------------------------------------------------------
\* Properties of the close protocol.

closed_count == ctx.extension_threads_cnt_of_closed

total_count == ctx.extension_threads_total_cnt

\* The terminal step ran in the step just taken.
TerminalStepRan ==
  eng'.ten_env_close_calls = eng.ten_env_close_calls + 1

\* The step just taken closed no ten_env, called no on_closed and destroyed
\* no context.
NoTerminalStep ==
  /\ eng'.ten_env_close_calls = eng.ten_env_close_calls
  /\ eng'.on_closed_calls = eng.on_closed_calls
  /\ eng'.destroy_calls = eng.destroy_calls
  /\ eng'.events = eng.events
  /\ ctx'.signature = ctx.signature

\* C1: in every reachable state of the extension context the closed-thread
\* counter is at most the total counter.
C1_ClosedAtMostTotal == closed_count <= total_count

\* C1 witness: one of two closing threads has reported.
C1_Witness ==
  /\ op.name = "on_close"
  /\ closed_count = 1
  /\ total_count = 2
  /\ ctx.signature

\* C2: whenever the terminal step has run, on either path, the closed
\* counter equals the total counter.
C2_CountsEqualAtTerminalStep ==
  eng.ten_env_close_calls > 0 => closed_count = total_count

\* C3: a close of a context without extension threads runs the terminal
\* step in that call, closes no extension thread and waits for no report.
C3_EmptyCloseIsImmediate ==
  [][(op'.name = "close" /\ ctx.extension_threads = <<>>) =>
       /\ TerminalStepRan
       /\ eng'.destroy_calls = eng.destroy_calls + 1
       /\ ctx.on_closed => eng'.on_closed_calls = eng.on_closed_calls + 1
       /\ ~ctx'.signature
       /\ threads' = threads
       /\ eng'.reports = eng.reports]_vars

\* C3 witness: the first close met an empty list and destroyed the context
\* although a group creation is still outstanding.
C3_Witness ==
  /\ op.name = "close"
  /\ eng.context_close_calls = 1
  /\ eng.destroy_calls = 1
  /\ eng.reports = 0
  /\ ~ctx.signature
  /\ pending # {}

\* C4: a close of a context holding n >= 1 extension threads sets the closed
\* counter to 0 and the total counter to n, calls ten_extension_thread_close
\* once on each thread of the list and on no other, and runs no terminal
\* step.
C4_CloseWithThreads ==
  [][(op'.name = "close" /\ Len(ctx.extension_threads) >= 1) =>
       /\ ctx'.extension_threads_cnt_of_closed = 0
       /\ ctx'.extension_threads_total_cnt = Len(ctx.extension_threads)
       /\ DOMAIN threads' = DOMAIN threads
       /\ \A t \in DOMAIN threads :
            threads'[t].close_calls =
              threads[t].close_calls + CountPtr(ctx.extension_threads, t)
       /\ \A t \in DOMAIN threads : CountPtr(ctx.extension_threads, t) <= 1
       /\ ctx'.extension_threads = ctx.extension_threads
       /\ NoTerminalStep]_vars

\* C4 witness: the first close met two extension threads.
C4_Witness ==
  /\ op.name = "close"
  /\ eng.context_close_calls = 1
  /\ Len(ctx.extension_threads) = 2
  /\ total_count = 2
  /\ closed_count = 0
  /\ \A t \in DOMAIN threads : threads[t].close_calls = 1
  /\ ctx.signature

\* C5: when a thread-closed report reaches ten_extension_context_on_close
\* the terminal step runs if and only if the counters are equal, and when
\* they differ nothing is closed, called back or destroyed.
C5_OnCloseRunsTerminalIffEqual ==
  [][op'.name = "on_close" =>
       /\ TerminalStepRan <=>
            ctx'.extension_threads_cnt_of_closed = ctx'.extension_threads_total_cnt
       /\ ctx'.extension_threads_cnt_of_closed # ctx'.extension_threads_total_cnt
            => NoTerminalStep]_vars

\* C6: the terminal step closes the ten_env, then calls on_closed if it is
\* set, then destroys the context; the callback sees a live context.
C6_TerminalStepOrder ==
  /\ [][eng'.events # eng.events =>
          eng'.events = eng.events \o
            (IF ctx.on_closed
             THEN <<"ten_env_close", "on_closed", "destroy">>
             ELSE <<"ten_env_close", "destroy">>)]_vars
  /\ [](\A i \in 1..Len(eng.on_closed_saw_signature) :
          eng.on_closed_saw_signature[i])

\* C6 witness: a terminal step with a registered callback has run.
C6_Witness ==
  /\ eng.events = <<"ten_env_close", "on_closed", "destroy">>
  /\ eng.on_closed_saw_signature = <<TRUE>>
  /\ ~ctx.signature

\* C7: the emptiness assertions of ten_extension_context_do_close and of
\* ten_extension_context_destroy hold in every interleaving.
C7_ListEmptyAtTerminalStep ==
  /\ AssertDoCloseEmpty \notin eng.failed
  /\ AssertDestroyEmpty \notin eng.failed

\* ------------------------------------------------------------------------
\* Properties of the start of the extension groups.

\* The group infos of the list that are located in this app.
LocalGroupInfos(infos) == SelectSeq(infos, LAMBDA g : g.app_uri = ThisAppUri)

\* C8: when no group info of the command belongs to this app, the start
\* installs the command's lists into the context and starts the context,
\* without any request and so without any group-created callback.
C8_NoLocalGroupStartsDirectly ==
  [][(op'.name = "start_extension_group"
      /\ LocalGroupInfos(cmd.extension_groups_info) = <<>>) =>
       /\ ctx'.extension_groups_info_from_graph = cmd.extension_groups_info
       /\ ctx'.extensions_info_from_graph = cmd.extensions_info
       /\ eng'.context_start_calls = eng.context_start_calls + 1
       /\ eng'.start_result
       /\ requests' = <<>>
       /\ pending' = {}]_vars

\* C9: when every local group addon resolves, the start issues one request
\* per local group info, in order, with the addon name and the instance
\* name of that info, none for a group info of another app, and succeeds.
C9_OneRequestPerLocalGroup ==
  [][(op'.name = "start_extension_group"
      /\ \A i \in 1..Len(cmd.extension_groups_info) :
           cmd.extension_groups_info[i].app_uri = ThisAppUri =>
             cmd.extension_groups_info[i].extension_group_addon_name
               \in RegisteredGroupAddons) =>
       LET local == LocalGroupInfos(cmd.extension_groups_info)
       IN /\ requests' =
               [i \in 1..Len(local) |->
                  [addon_name |-> local[i].extension_group_addon_name,
                   instance_name |-> local[i].extension_group_instance_name]]
          /\ pending' = 1..Len(local)
          /\ eng'.start_result]_vars

\* C9 witness: the start succeeded with one request although a group of
\* another app names an addon that does not exist.
C9_Witness ==
  /\ op.name = "start_extension_group"
  /\ eng.start_result
  /\ Len(requests) = 1
  /\ \E i \in 1..Len(cmd.extension_groups_info) :
       /\ cmd.extension_groups_info[i].app_uri = OtherAppUri
       /\ cmd.extension_groups_info[i].extension_group_addon_name = "does_not_exist"

\* C10: each completed group creation creates one extension thread,
\* attaches it to the group and to the context and appends it to
\* extension_threads; every extension thread that was not reclaimed is in
\* the list exactly once, and as long as no thread was reclaimed the length
\* of the list is the number of callbacks that ran.
C10_OneThreadPerCreatedGroup ==
  /\ [][(op'.name = "create_extension_group_done" /\ ctx.signature) =>
          LET r == op'.arg
          IN /\ r \notin DOMAIN threads
             /\ DOMAIN threads' = DOMAIN threads \cup {r}
             /\ threads'[r].extension_group = r
             /\ threads'[r].extension_context = "extension_context"
             /\ groups'[r].extension_thread = r
             /\ groups'[r].extension_context = "extension_context"
             /\ groups'[r].name = requests[r].instance_name
             /\ ctx'.extension_threads = Append(ctx.extension_threads, r)
             /\ eng'.callbacks = eng.callbacks + 1]_vars
  /\ [](/\ \A t \in DOMAIN threads :
             CountPtr(ctx.extension_threads, t) =
               IF threads[t].reclaimed THEN 0 ELSE 1
        /\ SeqToSet(ctx.extension_threads) \subseteq DOMAIN threads
        /\ Len(ctx.extension_threads) = eng.callbacks - eng.reports
        /\ eng.reports = 0 => Len(ctx.extension_threads) = eng.callbacks)

\* C10 witness: two group-created callbacks ran and no thread was reclaimed.
C10_Witness ==
  /\ op.name = "create_extension_group_done"
  /\ eng.callbacks = 2
  /\ eng.reports = 0
  /\ ctx.extension_threads = <<1, 2>>
  /\ ctx.signature

(***************************************************************************)
(* A long start: the graph declares one more local group than MaxGroups,  *)
(* every one of them resolvable, so that close() calls and closed         *)
(* reports have room to fall between the creations of the groups.         *)
(***************************************************************************)
LongStartGroups == MaxGroups + 1

LongStartCmd ==
  LET gl == [i \in 1..LongStartGroups |->
               GroupInfo(i, ThisAppUri, TEN_STR_DEFAULT_EXTENSION_GROUP)]
  IN [extension_groups_info |-> gl,
      extensions_info |-> [i \in 1..Len(gl) |-> ExtensionInfo(i, gl[i])]]

InitLongStart ==
  /\ build \in Builds
  /\ cmd = LongStartCmd
  /\ \E total_cnt \in 0..MaxGarbage : ctx = ten_extension_context_create(total_cnt)
  /\ groups = <<>>
  /\ threads = <<>>
  /\ requests = <<>>
  /\ pending = {}
  /\ eng = EngineInit
  /\ op = [name |-> "create", arg |-> 0]
  /\ tester = TesterInit
  /\ pingpong = PingPongInit
  /\ lifecycle = LifecycleIdle
  /\ logger = LoggerIdle

SpecLongStart == InitLongStart /\ [][Next]_vars

\* The threads that some call started.
StartedThreads(ts) == {t \in DOMAIN ts : ts[t].start_calls > 0}

\* C11: the extension threads are started exactly when the number of created
\* groups first equals the number of local groups the command declares: the
\* callback that creates the last local group leaves every registered thread
\* started exactly once, and no other step starts a thread.
C11_ThreadsStartWhenLastGroupCreated ==
  [][IF op'.name = "create_extension_group_done" /\ ctx.signature /\
        ~eng'.aborted /\
        eng'.callbacks = Len(LocalGroupInfos(cmd.extension_groups_info))
     THEN \A t \in SeqToSet(ctx'.extension_threads) :
            threads'[t].start_calls = 1
     ELSE StartedThreads(threads') = StartedThreads(threads)]_vars

\* How often step e occurs in the trace of the start.
TraceCount(e) == Len(SelectSeq(eng.trace, LAMBDA x : x = e))

\* C12: the step that starts the first extension thread has installed the
\* lists of the command in the context (the command's lists are left empty,
\* the context holds their former elements), then logged the graph resources,
\* then started the threads, in that order; a context installs each list at
\* most once.
C12_InstallThenLogThenStart ==
  /\ [][(StartedThreads(threads) = {} /\ StartedThreads(threads') # {}) =>
          /\ eng'.trace = eng.trace \o <<"add_extensions_info",
                                         "add_extension_groups_info",
                                         "log_graph_resources", "start">>
          /\ cmd'.extensions_info = <<>>
          /\ cmd'.extension_groups_info = <<>>
          /\ cmd.extension_groups_info # <<>>
          /\ ctx'.extensions_info_from_graph = cmd.extensions_info
          /\ ctx'.extension_groups_info_from_graph = cmd.extension_groups_info
          /\ eng'.graph_resources_logged = 1]_vars
  /\ [](/\ TraceCount("add_extensions_info") <= 1
        /\ TraceCount("add_extension_groups_info") <= 1)

\* C12 witness: the callback of the second group has just started both
\* threads of a context that holds the two group infos of the command.
C12_Witness ==
  /\ op.name = "create_extension_group_done"
  /\ StartedThreads(threads) = {1, 2}
  /\ Len(ctx.extension_groups_info_from_graph) = 2
  /\ cmd.extension_groups_info = <<>>
  /\ eng.trace[Len(eng.trace)] = "start"

\* The positions of the local group infos whose addon cannot be resolved.
UnresolvedLocal(infos) ==
  {i \in DOMAIN infos :
     /\ infos[i].app_uri = ThisAppUri
     /\ infos[i].extension_group_addon_name \notin RegisteredGroupAddons}

\* C13: start_extension_group returns false exactly when the addon of some
\* local group cannot be resolved; the err the caller passed then carries the
\* code Generic and the message "Unable to find <addon name>" of the first
\* such group, and is left alone when the call returns true.
C13_UnresolvedAddonFailsStart ==
  [][op'.name = "start_extension_group" =>
       LET infos == cmd.extension_groups_info
           bad == UnresolvedLocal(infos)
       IN IF bad = {}
          THEN eng'.start_result /\ eng'.err = NoError
          ELSE /\ ~eng'.start_result
               /\ LET first == CHOOSE i \in bad : \A k \in bad : i <= k
                  IN eng'.err =
                       IF eng'.err_given
                       THEN [code |-> TEN_ERROR_CODE_GENERIC,
                             msg |-> "Unable to find " \o
                                       infos[first].extension_group_addon_name]
                       ELSE NoError]_vars

\* C13 witness: the second local group names an addon that is not found;
\* the request for the first group was issued, the call returned false and
\* the caller's err says which addon is missing.
C13_Witness ==
  /\ op.name = "start_extension_group"
  /\ ~eng.start_result
  /\ Len(requests) = 1
  /\ eng.err = [code |-> TEN_ERROR_CODE_GENERIC,
                msg |-> "Unable to find does_not_exist"]

\* The command declares no group at all and the context holds none.
EmptyGraph ==
  /\ cmd.extension_groups_info = <<>>
  /\ ctx.extension_groups_info_from_graph = <<>>

\* C14: the start of a StartGraph command without groups succeeds at once,
\* issues no request and leaves the context with zero threads, started; a
\* later close() then runs the terminal step in the same call (on_closed is
\* invoked when it is set), with no request ever issued and no thread-closed
\* report ever made.
C14_EmptyGraphStartsAndCloses ==
  /\ [][(op'.name = "start_extension_group" /\ EmptyGraph /\ ctx.signature) =>
          /\ eng'.start_result
          /\ requests' = <<>> /\ pending' = {}
          /\ ctx'.extension_threads = <<>> /\ threads' = <<>>
          /\ eng'.context_start_calls = 1]_vars
  /\ [][(op'.name = "close" /\ EmptyGraph /\ eng.start_called) =>
          /\ ~ctx'.signature
          /\ eng'.events = eng.events \o
               (IF ctx.on_closed THEN <<"ten_env_close", "on_closed", "destroy">>
                                 ELSE <<"ten_env_close", "destroy">>)
          /\ eng'.on_closed_calls = IF ctx.on_closed THEN 1 ELSE 0
          /\ requests' = <<>> /\ threads' = <<>>
          /\ eng'.reports = 0 /\ eng'.callbacks = 0]_vars

\* C14 witness: a command without groups was started and the context, whose
\* owner registered on_closed, was then closed: the callback ran, no request
\* and no report was ever made.
C14_Witness ==
  /\ op.name = "close"
  /\ cmd.extension_groups_info = <<>>
  /\ eng.start_called /\ eng.start_result
  /\ eng.context_start_calls = 1
  /\ eng.on_closed_calls = 1
  /\ requests = <<>> /\ eng.reports = 0
  /\ ~ctx.signature

\* The (addon name, instance name) pairs of the extensions that the command
\* schedules into the local group named name.
ScheduledPairs(name) ==
  LET idx == {i \in DOMAIN cmd.extensions_info :
                /\ cmd.extensions_info[i].extension_group_name = name
                /\ cmd.extensions_info[i].app_uri = ThisAppUri
                /\ cmd.extensions_info[i].graph_id = ThisGraphId}
  IN {<<cmd.extensions_info[i].extension_addon_name,
        cmd.extensions_info[i].extension_name>> : i \in idx}

\* C15: the group-created callback gives the new group the pairs the command
\* schedules into it if and only if the addon of the group is
\* default_extension_group; the pairs list of a group of any other addon is
\* left as the addon created it.
C15_DefaultGroupInheritsPairs ==
  [][(op'.name = "create_extension_group_done" /\ ctx.signature) =>
       LET r == op'.arg
           req == requests[r]
           pairs == groups'[r].extension_addon_and_instance_name_pairs
       IN /\ ScheduledPairs(req.instance_name) # {}
          /\ IF req.addon_name = TEN_STR_DEFAULT_EXTENSION_GROUP
             THEN /\ SeqToSet(pairs) = ScheduledPairs(req.instance_name)
                  /\ Len(pairs) = Cardinality(ScheduledPairs(req.instance_name))
             ELSE /\ pairs =
                       created_extension_group(req).extension_addon_and_instance_name_pairs
                  /\ SeqToSet(pairs) \cap ScheduledPairs(req.instance_name) = {}]_vars

\* C15 witness: a default_extension_group group holding its scheduled pair
\* next to a group of another addon whose pairs list is still empty.
C15_Witness ==
  /\ op.name = "create_extension_group_done"
  /\ DOMAIN groups = {1, 2}
  /\ \E a, b \in DOMAIN groups :
       /\ groups[a].addon_host_name = TEN_STR_DEFAULT_EXTENSION_GROUP
       /\ Len(groups[a].extension_addon_and_instance_name_pairs) = 1
       /\ groups[b].addon_host_name = "custom_group"
       /\ groups[b].extension_addon_and_instance_name_pairs = <<>>

(***************************************************************************)
(* ten_env_tester.log of the Python binding                                *)
(* (binding/python/native/test/env_tester/env_tester_log.c).  A Python     *)
(* thread, or a Python callback running on the tester thread, calls log;   *)
(* the log itself is a task posted to the tester thread.                   *)
(***************************************************************************)

\* Number of log calls made.
MaxLogCalls == 2

TEN_ERROR_CODE_TEN_IS_CLOSED == "TenIsClosed"

TEN_ERROR_CODE_DEADLOCK_PREVENTED == "DeadlockPrevented"

Py_None == "None"

\* The threads that call log: a Python thread of the test, and the tester
\* thread itself, from inside a callback of the tester.
LogCallers == {"py_thread", "tester_thread"}

\* No ten_env_tester_notify_log_ctx_t was allocated.
NoLogCtx ==
  [created |-> FALSE, live |-> FALSE, sync |-> FALSE, completed |-> "none",
   destroys |-> 0]

\* completed is an event (unset) for a sync call and NULL for an async one.
ten_env_tester_notify_log_ctx_create(sync) ==
  [created |-> TRUE, live |-> TRUE, sync |-> sync,
   completed |-> IF sync THEN "unset" ELSE "none",
   destroys |-> 0]

ten_env_tester_notify_log_ctx_destroy(c) ==
  [c EXCEPT !.live = FALSE, !.completed = "none", !.destroys = @ + 1]

\* ten_env_tester_proxy_notify that succeeds: the task of call id is put at
\* the tail of the inbox of the tester thread.
ten_env_tester_proxy_notify(t, id) ==
  [t EXCEPT !.inbox = Append(@, id)]

\* A log that goes on with a proxy that is NULL.
ten_py_ten_env_tester_log_without_closed_check(t, caller, sync, notify_ok) ==
  LET id == Len(t.calls) + 1
      call == [caller |-> caller, sync |-> sync, pc |-> "entered",
               result |-> "pending", ctx |-> NoLogCtx, notify |-> "none"]
      c == ten_env_tester_notify_log_ctx_create(sync)
  IN IF ~notify_ok
     THEN [t EXCEPT !.calls =
             Append(@, [call EXCEPT
                          !.pc = "returned",
                          !.result = TEN_ERROR_CODE_GENERIC,
                          !.notify = "false",
                          !.ctx = ten_env_tester_notify_log_ctx_destroy(c)])]
     ELSE [ten_env_tester_proxy_notify(t, id) EXCEPT
             !.calls = Append(@, [call EXCEPT !.pc = "notified", !.ctx = c,
                                              !.notify = "true"]),
             !.gil = caller]

\* A log that goes on after a notify that failed as after one that succeeded.
ten_py_ten_env_tester_log_ignores_notify_result(t, caller, sync, notify_ok) ==
  LET call == [caller |-> caller, sync |-> sync, pc |-> "entered",
               result |-> "pending", ctx |-> NoLogCtx, notify |-> "none"]
      c == ten_env_tester_notify_log_ctx_create(sync)
  IN IF ~t.c_ten_env_tester_proxy
     THEN [t EXCEPT !.calls =
             Append(@, [call EXCEPT
                          !.pc = "returned",
                          !.result = TEN_ERROR_CODE_TEN_IS_CLOSED])]
     ELSE IF ~notify_ok
     THEN [t EXCEPT !.calls = Append(@, [call EXCEPT !.pc = "notified",
                                                     !.ctx = c,
                                                     !.notify = "false"]),
                    !.gil = caller]
     ELSE [ten_env_tester_proxy_notify(t, Len(t.calls) + 1) EXCEPT
             !.calls = Append(@, [call EXCEPT !.pc = "notified", !.ctx = c,
                                              !.notify = "true"]),
             !.gil = caller]

\* ten_py_ten_env_tester_log up to the return of ten_env_tester_proxy_notify;
\* notify_ok is what ten_env_tester_proxy_notify returns.  The caller holds
\* the GIL.
ten_py_ten_env_tester_log(t, caller, sync, notify_ok) ==
  LET id == Len(t.calls) + 1
      call == [caller |-> caller, sync |-> sync, pc |-> "entered",
               result |-> "pending", ctx |-> NoLogCtx, notify |-> "none"]
      c == ten_env_tester_notify_log_ctx_create(sync)
  IN IF ~t.c_ten_env_tester_proxy
     THEN [t EXCEPT !.calls =
             Append(@, [call EXCEPT
                          !.pc = "returned",
                          !.result = TEN_ERROR_CODE_TEN_IS_CLOSED])]
     ELSE IF ~notify_ok
     THEN [t EXCEPT !.calls =
             Append(@, [call EXCEPT
                          !.pc = "returned",
                          !.result = TEN_ERROR_CODE_GENERIC,
                          !.notify = "false",
                          !.ctx = ten_env_tester_notify_log_ctx_destroy(c)])]
     ELSE [ten_env_tester_proxy_notify(t, id) EXCEPT
             !.calls = Append(@, [call EXCEPT !.pc = "notified", !.ctx = c,
                                              !.notify = "true"]),
             !.gil = caller]

\* A call that keeps the GIL while it waits.
ten_py_ten_env_tester_log_after_notify_keeps_gil(t, id) ==
  IF t.calls[id].sync
  THEN [t EXCEPT !.calls[id].pc = "waiting"]
  ELSE [t EXCEPT !.calls[id].pc = "returned",
                 !.calls[id].result = Py_None,
                 !.gil = "none"]

\* The rest of ten_py_ten_env_tester_log after a successful notify: a sync
\* call releases the GIL and waits for completed, an async call returns.
ten_py_ten_env_tester_log_after_notify(t, id) ==
  IF t.calls[id].sync
  THEN [t EXCEPT !.calls[id].pc = "waiting", !.gil = "none"]
  ELSE [t EXCEPT !.calls[id].pc = "returned",
                 !.calls[id].result = Py_None,
                 !.gil = "none"]

\* ten_event_wait returned: the caller takes the GIL back, destroys the ctx
\* and returns None.
ten_py_ten_env_tester_log_woken(t, id) ==
  [t EXCEPT !.calls[id].pc = "returned",
            !.calls[id].result = Py_None,
            !.calls[id].ctx = ten_env_tester_notify_log_ctx_destroy(@)]

\* A task that frees the ctx in either mode, after setting the event.
ten_py_ten_env_tester_log_proxy_notify_always_destroys(t, id) ==
  LET c == t.calls[id].ctx
      t1 == [t EXCEPT !.logs = Append(@, [call |-> id,
                                          thread |-> "tester_thread",
                                          ctx_live |-> c.live])]
  IN [t1 EXCEPT !.calls[id].ctx = ten_env_tester_notify_log_ctx_destroy(c)]

\* A task that signals completion and frees the ctx without logging.
ten_py_ten_env_tester_log_proxy_notify_without_log(t, id) ==
  LET c == t.calls[id].ctx
  IN IF c.completed # "none"
     THEN [t EXCEPT !.calls[id].ctx.completed = "set"]
     ELSE [t EXCEPT !.calls[id].ctx = ten_env_tester_notify_log_ctx_destroy(c)]

\* ten_py_ten_env_tester_log_proxy_notify, the task of call id, run by the
\* tester thread: it logs from the fields of the ctx, then sets completed
\* (sync) or destroys the ctx (async).
ten_py_ten_env_tester_log_proxy_notify(t, id) ==
  LET c == t.calls[id].ctx
      t1 == [t EXCEPT !.logs = Append(@, [call |-> id,
                                          thread |-> "tester_thread",
                                          ctx_live |-> c.live])]
  IN IF c.completed # "none"
     THEN [t1 EXCEPT !.calls[id].ctx.completed = "set"]
     ELSE [t1 EXCEPT !.calls[id].ctx = ten_env_tester_notify_log_ctx_destroy(c)]

\* Thread th is not inside a log call.
ThreadFree(th) ==
  \A id \in DOMAIN tester.calls :
    tester.calls[id].caller = th => tester.calls[id].pc = "returned"

\* The engine side takes no part.
NoGraph ==
  /\ build = "release"
  /\ cmd = [extension_groups_info |-> <<>>, extensions_info |-> <<>>]
  /\ ctx = ten_extension_context_create(0)
  /\ groups = <<>>
  /\ threads = <<>>
  /\ requests = <<>>
  /\ pending = {}
  /\ eng = EngineInit

InitTester ==
  /\ NoGraph
  /\ op = [name |-> "create", arg |-> 0]
  /\ tester = TesterInit
  /\ pingpong = PingPongInit
  /\ lifecycle = LifecycleIdle
  /\ logger = LoggerIdle

\* The log call took the binding to t.
TesterBecomes(t, name, arg) ==
  /\ tester' = t
  /\ op' = [name |-> name, arg |-> arg]
  /\ UNCHANGED <<build, cmd, ctx, groups, threads, requests, pending, eng,
                 pingpong, lifecycle, logger>>

\* Python code on thread caller calls ten_env_tester.log.
LogCall ==
  /\ Len(tester.calls) < MaxLogCalls
  /\ tester.gil = "none"
  /\ \E caller \in LogCallers, sync \in BOOLEAN, notify_ok \in BOOLEAN :
       /\ ThreadFree(caller)
       /\ TesterBecomes(ten_py_ten_env_tester_log(tester, caller, sync, notify_ok),
                        "log", Len(tester.calls) + 1)

\* The call goes on after ten_env_tester_proxy_notify returned true.
LogAfterNotify ==
  \E id \in DOMAIN tester.calls :
    /\ tester.calls[id].pc = "notified"
    /\ TesterBecomes(ten_py_ten_env_tester_log_after_notify(tester, id),
                     "log_after_notify", id)

\* The event a sync caller waits for is set and the GIL is free.
LogWoken ==
  \E id \in DOMAIN tester.calls :
    /\ tester.calls[id].pc = "waiting"
    /\ tester.calls[id].ctx.completed = "set"
    /\ tester.gil = "none"
    /\ TesterBecomes(ten_py_ten_env_tester_log_woken(tester, id),
                     "log_woken", id)

\* The tester thread, when it is not inside a callback that is calling log,
\* runs the task at the head of its inbox.
TesterRunTask ==
  /\ tester.inbox # <<>>
  /\ ThreadFree("tester_thread")
  /\ TesterBecomes(ten_py_ten_env_tester_log_proxy_notify(
                     [tester EXCEPT !.inbox = Tail(@)], Head(tester.inbox)),
                   "proxy_notify", Head(tester.inbox))

\* The tester closes: the binding drops its proxy.
TesterClose ==
  /\ tester.c_ten_env_tester_proxy
  /\ ThreadFree("tester_thread")
  /\ TesterBecomes([tester EXCEPT !.c_ten_env_tester_proxy = FALSE],
                   "tester_close", 0)

NextTester ==
  \/ LogCall
  \/ LogAfterNotify
  \/ LogWoken
  \/ TesterRunTask
  \/ TesterClose

SpecTester == InitTester /\ [][NextTester]_vars

\* The call whose log was executed, for every executed log.
ExecutedCalls == {tester.logs[i].call : i \in DOMAIN tester.logs}

C17_LogRunsOnTesterThread ==
  /\ [](\A id \in DOMAIN tester.calls :
          (tester.calls[id].sync /\ tester.calls[id].pc = "returned" /\
           tester.calls[id].result = Py_None) => id \in ExecutedCalls)
  /\ [][(op'.name = "log_after_notify" /\ ~tester.calls[op'.arg].sync) =>
          /\ tester'.calls[op'.arg].pc = "returned"
          /\ tester'.calls[op'.arg].result = Py_None]_vars
  /\ [][tester'.logs # tester.logs =>
          /\ op'.name = "proxy_notify"
          /\ tester'.logs = Append(tester.logs,
                                   [call |-> op'.arg,
                                    thread |-> "tester_thread",
                                    ctx_live |-> TRUE])
          /\ tester.calls[op'.arg].caller = "tester_thread" =>
               tester.calls[op'.arg].pc = "returned"]_vars

\* C17 witness: the sync call of the Python thread came back after its log
\* ran; its async call then came back while its task still waits in the
\* inbox of the tester thread.
C17_Witness ==
  /\ op.name = "log_after_notify"
  /\ Len(tester.calls) = 2
  /\ tester.calls[1].caller = "py_thread" /\ tester.calls[1].sync
  /\ tester.calls[1].result = Py_None /\ 1 \in ExecutedCalls
  /\ tester.calls[2].caller = "py_thread" /\ ~tester.calls[2].sync
  /\ tester.calls[2].result = Py_None /\ 2 \notin ExecutedCalls
  /\ tester.inbox = <<2>>

\* C18: a sync log call made on the tester thread itself never blocks in the
\* wait for its own task: once past the closed check and the notify it comes
\* back with the error DeadlockPrevented.
C18_SyncFromTesterThreadIsRefused ==
  \A id \in DOMAIN tester.calls :
    (tester.calls[id].caller = "tester_thread" /\ tester.calls[id].sync) =>
      /\ tester.calls[id].pc # "waiting"
      /\ (tester.calls[id].pc = "returned" /\
          tester.calls[id].result \notin {TEN_ERROR_CODE_TEN_IS_CLOSED,
                                          TEN_ERROR_CODE_GENERIC}) =>
           tester.calls[id].result = TEN_ERROR_CODE_DEADLOCK_PREVENTED

(***************************************************************************)
(* The ping-pong graph of the long_running test: extension_1               *)
(* (extension_1/src/main.cc) and extension_2 (extension_2/src/main.cc).    *)
(* Every callback of an extension is one step of its extension thread.     *)
(***************************************************************************)

\* The number extension_1 compares cnt with.
PingPongLimit == 100

TEN_STATUS_CODE_OK == "OK"

\* A send_cmd that puts the command in front of those still waiting.
send_cmd_to_front(p, name, dests) ==
  LET id == Len(p.cmds) + 1
      c == [name |-> name, dests |-> dests, received |-> FALSE,
            results |-> 0, status |-> "none"]
      p1 == [p EXCEPT !.cmds = Append(@, c)]
  IN IF name = "test_cmd_from_1" THEN [p1 EXCEPT !.inbox_2 = <<id>> \o @]
     ELSE IF name = "test_cmd_from_2" THEN [p1 EXCEPT !.inbox_1 = <<id>> \o @]
     ELSE [p1 EXCEPT !.app_inbox = <<id>> \o @]

\* ten_env.send_cmd: the graph connects test_cmd_from_1 of extension_1 to
\* extension_2 and test_cmd_from_2 of extension_2 to extension_1; a command
\* with explicit destinations goes where they say, the empty app URI being
\* the app of the sender.
send_cmd(p, name, dests) ==
  LET id == Len(p.cmds) + 1
      c == [name |-> name, dests |-> dests, received |-> FALSE,
            results |-> 0, status |-> "none"]
      p1 == [p EXCEPT !.cmds = Append(@, c)]
  IN IF name = "test_cmd_from_1" THEN [p1 EXCEPT !.inbox_2 = Append(@, id)]
     ELSE IF name = "test_cmd_from_2" THEN [p1 EXCEPT !.inbox_1 = Append(@, id)]
     ELSE [p1 EXCEPT !.app_inbox = Append(@, id)]

\* ten_env.return_result of a result with status_code for command id.
return_result(p, id, status_code) ==
  [p EXCEPT !.cmds[id].results = @ + 1, !.cmds[id].status = status_code]

\* An on_start that sends its command twice.
extension_1_on_start_sends_twice(p) ==
  send_cmd(send_cmd([p EXCEPT !.started = TRUE], "test_cmd_from_1", <<>>),
           "test_cmd_from_1", <<>>)

\* extension_1: on_start.
extension_1_on_start(p) ==
  send_cmd([p EXCEPT !.started = TRUE], "test_cmd_from_1", <<>>)

\* extension_1: on_cmd of the command id.
extension_1_on_cmd(p, id) ==
  IF p.cmds[id].name = "test_cmd_from_2"
  THEN LET p1 == return_result(p, id, TEN_STATUS_CODE_OK)
       IN IF p1.cnt < PingPongLimit
          THEN send_cmd([p1 EXCEPT !.cnt = @ + 1], "test_cmd_from_1", <<>>)
          ELSE send_cmd(p1, "close_app", <<"">>)
  ELSE p

\* An on_cmd that returns its result and sends nothing back.
extension_2_on_cmd_without_reply(p, id) ==
  IF p.cmds[id].name = "test_cmd_from_1"
  THEN return_result(p, id, TEN_STATUS_CODE_OK)
  ELSE p

\* An on_cmd that sends its command without returning a result.
extension_2_on_cmd_without_result(p, id) ==
  IF p.cmds[id].name = "test_cmd_from_1"
  THEN send_cmd(p, "test_cmd_from_2", <<>>)
  ELSE p

\* extension_2: on_cmd of the command id.
extension_2_on_cmd(p, id) ==
  IF p.cmds[id].name = "test_cmd_from_1"
  THEN send_cmd(return_result(p, id, TEN_STATUS_CODE_OK),
                "test_cmd_from_2", <<>>)
  ELSE p

InitPingPong ==
  /\ NoGraph
  /\ op = [name |-> "create", arg |-> 0]
  /\ tester = TesterInit
  /\ pingpong = PingPongInit
  /\ lifecycle = LifecycleIdle
  /\ logger = LoggerIdle

\* A callback of an extension took the graph to p.
PingPongBecomes(p, name, arg) ==
  /\ pingpong' = p
  /\ op' = [name |-> name, arg |-> arg]
  /\ UNCHANGED <<build, cmd, ctx, groups, threads, requests, pending, eng,
                 tester, lifecycle, logger>>

\* The thread of extension_1 runs on_start.
Ext1OnStart ==
  /\ ~pingpong.started
  /\ PingPongBecomes(extension_1_on_start(pingpong), "extension_1.on_start", 0)

\* The thread of extension_1 takes the next command from its inbox.
Ext1OnCmd ==
  /\ pingpong.started
  /\ ~pingpong.app_closing
  /\ pingpong.inbox_1 # <<>>
  /\ LET id == Head(pingpong.inbox_1)
     IN PingPongBecomes(
          extension_1_on_cmd([pingpong EXCEPT !.inbox_1 = Tail(@),
                                              !.cmds[id].received = TRUE], id),
          "extension_1.on_cmd", id)

\* The thread of extension_2 takes the next command from its inbox.
Ext2OnCmd ==
  /\ ~pingpong.app_closing
  /\ pingpong.inbox_2 # <<>>
  /\ LET id == Head(pingpong.inbox_2)
     IN PingPongBecomes(
          extension_2_on_cmd([pingpong EXCEPT !.inbox_2 = Tail(@),
                                              !.cmds[id].received = TRUE], id),
          "extension_2.on_cmd", id)

\* The app takes the CloseApp command and begins to close.
AppOnCloseApp ==
  /\ pingpong.app_inbox # <<>>
  /\ LET id == Head(pingpong.app_inbox)
     IN PingPongBecomes([pingpong EXCEPT !.app_inbox = Tail(@),
                                         !.cmds[id].received = TRUE,
                                         !.app_closing = TRUE],
                        "app.on_close_app", id)

NextPingPong ==
  \/ Ext1OnStart
  \/ Ext1OnCmd
  \/ Ext2OnCmd
  \/ AppOnCloseApp

SpecPingPong == InitPingPong /\ [][NextPingPong]_vars

\* The commands named name that were sent, and those of them that arrived.
Sent(name) == {id \in DOMAIN pingpong.cmds : pingpong.cmds[id].name = name}

Received(name) == {id \in Sent(name) : pingpong.cmds[id].received}

\* A round-trip: a test_cmd_from_1 sent by extension_1 and answered by a
\* test_cmd_from_2 that extension_1 received.
RoundTrips == Cardinality(Received("test_cmd_from_2"))

\* C19: extension_1 sends CloseApp, with the empty app URI as its only
\* destination, after exactly 100 round-trips: CloseApp is sent once the
\* 100th round-trip is complete and not before.
C19_CloseAppAfter100RoundTrips ==
  /\ Sent("close_app") # {} <=> RoundTrips >= PingPongLimit
  /\ \A id \in Sent("close_app") :
       /\ pingpong.cmds[id].dests = <<"">>
       /\ RoundTrips = PingPongLimit
  /\ Cardinality(Sent("close_app")) <= 1

\* C20: every ping-pong command an extension received was answered by
\* exactly one result, with status OK, and no command is answered before it
\* is received: the callback that receives a command calls return_result for
\* that command once and for no other.
C20_OneResultPerCommand ==
  /\ [](\A id \in Sent("test_cmd_from_1") \cup Sent("test_cmd_from_2") :
          IF pingpong.cmds[id].received
          THEN /\ pingpong.cmds[id].results = 1
               /\ pingpong.cmds[id].status = TEN_STATUS_CODE_OK
          ELSE pingpong.cmds[id].results = 0)
  /\ [][op'.name \in {"extension_1.on_cmd", "extension_2.on_cmd"} =>
          /\ ~pingpong.cmds[op'.arg].received
          /\ pingpong'.cmds[op'.arg].results = pingpong.cmds[op'.arg].results + 1
          /\ \A id \in DOMAIN pingpong.cmds \ {op'.arg} :
               pingpong'.cmds[id].results = pingpong.cmds[id].results]_vars

\* C20 witness: three commands of each extension were received and answered.
C20_Witness ==
  /\ op.name = "extension_1.on_cmd"
  /\ Cardinality(Received("test_cmd_from_1")) = 3
  /\ Cardinality(Received("test_cmd_from_2")) = 3
  /\ \A id \in Received("test_cmd_from_1") \cup Received("test_cmd_from_2") :
       pingpong.cmds[id].results = 1

(***************************************************************************)
(* The lifecycle of an extension: the extension thread calls on_configure, *)
(* on_init, on_start, on_stop and on_deinit in turn and waits, after each, *)
(* for the matching on_X_done of the extension.  The extensions are those  *)
(* of the tests: log_advanced_with_fields.cc and the ping-pong extensions. *)
(***************************************************************************)

\* Number of on_X_done calls made outside the callback they belong to.
MaxDoneAgain == 2

Extensions == {"log_advanced_with_fields", "extension_1", "extension_2"}

\* The position of callback X in the lifecycle.
PhaseIndex(X) == CHOOSE i \in DOMAIN Phases : Phases[i] = X

\* ten_env.on_X_done: the acknowledgement is taken when X is the phase the
\* thread is in and was not acknowledged yet; any other call is a programmer
\* error, which aborts the thread in a debug build and leaves a Fatal record
\* and a closing owner in a production build.
ten_env_on_phase_done(l, X, bld) ==
  IF l.current = PhaseIndex(X) /\ l.acks[X] = 0
  THEN [l EXCEPT !.acks[X] = 1]
  ELSE [l EXCEPT !.rejected = Append(@, X),
                 !.aborted = (bld = "debug"),
                 !.stop_requested = TRUE]

\* ten_env.log of one record.
ten_env_log(l) == [l EXCEPT !.log_lines = @ + 1]

\* The callback of ten::extension_t that an extension does not override.
default_on_phase(l, X, bld) == ten_env_on_phase_done(l, X, bld)

\* An on_init that logs and returns without on_init_done.
log_advanced_with_fields_on_init_without_done(l, bld) ==
  ten_env_log(ten_env_log(ten_env_log(ten_env_log(ten_env_log(l)))))

\* log_advanced_with_fields.cc, test_extension::on_init: five records, then
\* on_init_done.
log_advanced_with_fields_on_init(l, bld) ==
  ten_env_on_phase_done(
    ten_env_log(ten_env_log(ten_env_log(ten_env_log(ten_env_log(l))))),
    "on_init", bld)

\* log_advanced_with_fields.cc, test_extension::on_deinit: one record, then
\* on_deinit_done.
log_advanced_with_fields_on_deinit(l, bld) ==
  ten_env_on_phase_done(ten_env_log(l), "on_deinit", bld)

\* extension_1, test_extension::on_start: on_start_done, then the first
\* test_cmd_from_1 is sent.
extension_1_on_start_of_thread(l, bld) ==
  [ten_env_on_phase_done(l, "on_start", bld) EXCEPT !.cmds_sent = @ + 1]

\* The callback X of the extension of the thread.
extension_on_phase(l, X, bld) ==
  IF l.extension = "log_advanced_with_fields" /\ X = "on_init"
  THEN log_advanced_with_fields_on_init(l, bld)
  ELSE IF l.extension = "log_advanced_with_fields" /\ X = "on_deinit"
  THEN log_advanced_with_fields_on_deinit(l, bld)
  ELSE IF l.extension = "extension_1" /\ X = "on_start"
  THEN extension_1_on_start_of_thread(l, bld)
  ELSE default_on_phase(l, X, bld)

\* The thread has the acknowledgement of the phase it is in.
PhaseAcknowledged(l) ==
  IF l.current = 0 THEN TRUE ELSE l.acks[Phases[l.current]] = 1

InitLifecycle ==
  /\ build \in Builds
  /\ cmd = [extension_groups_info |-> <<>>, extensions_info |-> <<>>]
  /\ ctx = ten_extension_context_create(0)
  /\ groups = <<>>
  /\ threads = <<>>
  /\ requests = <<>>
  /\ pending = {}
  /\ eng = EngineInit
  /\ op = [name |-> "create", arg |-> 0]
  /\ tester = TesterInit
  /\ pingpong = PingPongInit
  /\ lifecycle \in {LifecycleInit(e) : e \in Extensions}
  /\ logger = LoggerIdle

\* A step of the extension thread took the lifecycle to l.
LifecycleBecomes(l, name, arg) ==
  /\ lifecycle' = l
  /\ op' = [name |-> name, arg |-> arg]
  /\ UNCHANGED <<build, cmd, ctx, groups, threads, requests, pending, eng,
                 tester, pingpong, logger>>

\* The thread makes the next lifecycle transition: it calls the next
\* callback of its extension.  on_stop waits for the close of the thread.
LifecycleEnter ==
  /\ ~lifecycle.aborted
  /\ lifecycle.current < Len(Phases)
  /\ PhaseAcknowledged(lifecycle)
  /\ LET X == Phases[lifecycle.current + 1]
     IN /\ X = "on_stop" => lifecycle.stop_requested
        /\ LifecycleBecomes(
             extension_on_phase([lifecycle EXCEPT !.current = @ + 1,
                                                  !.entered[X] = @ + 1],
                                X, build),
             X, lifecycle.current + 1)

\* The engine closes the thread.
LifecycleClose ==
  /\ ~lifecycle.aborted
  /\ ~lifecycle.stop_requested
  /\ LifecycleBecomes([lifecycle EXCEPT !.stop_requested = TRUE], "close", 0)

\* Code of the extension calls on_X_done outside the callback on_X.
LifecycleDoneAgain ==
  /\ ~lifecycle.aborted
  /\ Len(lifecycle.rejected) < MaxDoneAgain
  /\ \E X \in PhaseNames :
       LifecycleBecomes(ten_env_on_phase_done(lifecycle, X, build),
                        "on_done_again", X)

NextLifecycle ==
  \/ LifecycleEnter
  \/ LifecycleClose
  \/ LifecycleDoneAgain

SpecLifecycle == InitLifecycle /\ [][NextLifecycle]_vars

\* C21: every lifecycle callback the thread entered has exactly one
\* on_X_done; the thread makes its next transition only from a phase that
\* has its acknowledgement, and an on_X_done that is not the first one of
\* the current phase is rejected and changes no acknowledgement.
C21_OneDonePerPhase ==
  /\ [](\A X \in PhaseNames :
          /\ lifecycle.entered[X] <= 1
          /\ lifecycle.acks[X] = lifecycle.entered[X]
          /\ lifecycle.entered[X] = 1 <=> PhaseIndex(X) <= lifecycle.current)
  /\ [][lifecycle'.current # lifecycle.current =>
          /\ lifecycle'.current = lifecycle.current + 1
          /\ IF lifecycle.current = 0 THEN TRUE
             ELSE lifecycle.acks[Phases[lifecycle.current]] = 1]_vars
  /\ [][op'.name = "on_done_again" =>
          /\ lifecycle'.acks = lifecycle.acks
          /\ lifecycle'.current = lifecycle.current
          /\ lifecycle'.rejected = Append(lifecycle.rejected, op'.arg)]_vars

\* C21 witness: the extension of log_advanced_with_fields.cc went through
\* all five callbacks with one acknowledgement each, and a further
\* on_init_done was rejected on the way.
C21_Witness ==
  /\ lifecycle.extension = "log_advanced_with_fields"
  /\ lifecycle.current = 5
  /\ \A X \in PhaseNames : lifecycle.acks[X] = 1
  /\ lifecycle.rejected = <<"on_init">>
  /\ lifecycle.log_lines = 6

(***************************************************************************)
(* The structured logger as the test log_advanced_category_filter.cc       *)
(* configures it: two handlers on one file.  The runtime logs under the    *)
(* category ten:runtime on the app thread, the extension logs under its    *)
(* own name on its thread.  A line is written to its sink in two pieces.   *)
(***************************************************************************)

\* Number of records the runtime logs.
MaxRuntimeLogs == 2

\* Longest rule list of a handler drawn for the matcher.
MaxRules == 2

\* The levels of an event, lowest first.
LogLevels == <<"trace", "debug", "info", "warn", "error", "fatal">>

LevelRank(level) == CHOOSE i \in DOMAIN LogLevels : LogLevels[i] = level

\* Categories are strings, kept as sequences of characters.
TEN_RUNTIME == <<"t", "e", "n", ":", "r", "u", "n", "t", "i", "m", "e">>

TEST_EXTENSION ==
  <<"t", "e", "s", "t", "_", "e", "x", "t", "e", "n", "s", "i", "o", "n">>

\* The glob of a rule: * is any run of characters, ? is one character.
RECURSIVE GlobMatch(_, _)
GlobMatch(pat, str) ==
  IF pat = <<>> THEN str = <<>>
  ELSE IF Head(pat) = "*"
  THEN IF GlobMatch(Tail(pat), str) THEN TRUE
       ELSE IF str = <<>> THEN FALSE
       ELSE GlobMatch(pat, Tail(str))
  ELSE IF str = <<>> THEN FALSE
  ELSE IF Head(pat) = "?" \/ Head(pat) = Head(str)
  THEN GlobMatch(Tail(pat), Tail(str))
  ELSE FALSE

\* A rule of a matcher, with and without a category.
CategoryRule(category, level) ==
  [has_category |-> TRUE, category |-> category, level |-> level]

LevelRule(level) ==
  [has_category |-> FALSE, category |-> <<>>, level |-> level]

\* The event matches the rule: the category agrees and the level is at
\* least the level of the rule; an off rule takes every level, to drop it.
RuleMatches(rule, ev) ==
  /\ IF rule.has_category THEN GlobMatch(rule.category, ev.category) ELSE TRUE
  /\ IF rule.level = "off" THEN TRUE
     ELSE LevelRank(ev.level) >= LevelRank(rule.level)

\* A matcher in which any matching rule that is not off lets the event pass.
RECURSIVE HandlerAccepts_any_rule(_, _)
HandlerAccepts_any_rule(rules, ev) ==
  IF rules = <<>> THEN FALSE
  ELSE IF RuleMatches(Head(rules), ev) /\ Head(rules).level # "off" THEN TRUE
  ELSE HandlerAccepts_any_rule(Tail(rules), ev)

\* The matcher of a handler: the first rule that matches decides, an off
\* rule by dropping; without a matching rule the event is dropped.
RECURSIVE HandlerAccepts(_, _)
HandlerAccepts(rules, ev) ==
  IF rules = <<>> THEN FALSE
  ELSE IF RuleMatches(Head(rules), ev) THEN Head(rules).level # "off"
  ELSE HandlerAccepts(Tail(rules), ev)

\* The first handler of the test.
HandlerA ==
  [matchers |-> <<CategoryRule(TEN_RUNTIME, "info")>>,
   path |-> "category_filter_test.log"]

\* A second handler whose catch-all rule comes first.
HandlerB_catch_all_first ==
  [matchers |-> <<LevelRule("debug"), CategoryRule(TEN_RUNTIME, "off")>>,
   path |-> "category_filter_test.log"]

\* The second handler of the test.
HandlerB ==
  [matchers |-> <<CategoryRule(TEN_RUNTIME, "off"), LevelRule("debug")>>,
   path |-> "category_filter_test.log"]

LogHandlers == <<HandlerA, HandlerB>>

\* The records of test_extension::on_cmd, in order.
OnCmdRecords ==
  <<[category |-> TEST_EXTENSION, level |-> "debug",
     message |-> "extension_debug_log_should_appear"],
    [category |-> TEST_EXTENSION, level |-> "info",
     message |-> "extension_info_log_should_appear"]>>

\* A record of the runtime.
RuntimeRecord(level) ==
  [category |-> TEN_RUNTIME, level |-> level, message |-> "runtime"]

\* A sink that every writer finds free.
SinkFree_always(lg, path) == TRUE

\* Nobody is writing a line to the sink of path.
SinkFree(lg, path) == lg.sinks[path].lock = "none"

\* Thread t is done with the handler it is at: it goes to the next handler
\* or, after the last one, to its next record; test_extension::on_cmd
\* returns its result after its last record.
NextHandler(lg, t) ==
  LET th == lg.threads[t]
  IN IF th.h < Len(lg.handlers)
     THEN [lg EXCEPT !.threads[t].h = @ + 1, !.threads[t].pc = "decide"]
     ELSE [lg EXCEPT !.threads[t].todo = Tail(@),
                     !.threads[t].h = 1,
                     !.threads[t].pc = IF Len(th.todo) = 1 THEN "idle"
                                       ELSE "decide",
                     !.on_cmd_results =
                        IF t = "extension_thread" /\ Len(th.todo) = 1
                        THEN @ + 1 ELSE @]

\* The piece of a line: which thread, handler and record it belongs to.
Piece(lg, t, part) ==
  [thread |-> t, handler |-> lg.threads[t].h,
   record |-> Head(lg.threads[t].todo), part |-> part]

\* Thread t takes its record to the handler it is at: a record the matcher
\* drops is skipped; for any other the handler takes the sink and writes the
\* first piece of the line.
handler_log(lg, t) ==
  LET th == lg.threads[t]
      handler == lg.handlers[th.h]
  IN IF ~HandlerAccepts(handler.matchers, Head(th.todo))
     THEN NextHandler(lg, t)
     ELSE [lg EXCEPT !.sinks[handler.path].lock = t,
                     !.sinks[handler.path].file = Append(@, Piece(lg, t, 1)),
                     !.threads[t].pc = "writing"]

\* The handler writes the rest of the line and lets go of the sink.
handler_log_finish(lg, t) ==
  LET handler == lg.handlers[lg.threads[t].h]
  IN NextHandler([lg EXCEPT !.sinks[handler.path].lock = "none",
                            !.sinks[handler.path].file =
                               Append(@, Piece(lg, t, 2))], t)

InitLogger ==
  /\ NoGraph
  /\ op = [name |-> "create", arg |-> 0]
  /\ tester = TesterInit
  /\ pingpong = PingPongInit
  /\ lifecycle = LifecycleIdle
  /\ logger = LoggerInit(LogHandlers)

\* A step of a logging thread took the logger to lg.
LoggerBecomes(lg, name, arg) ==
  /\ logger' = lg
  /\ op' = [name |-> name, arg |-> arg]
  /\ UNCHANGED <<build, cmd, ctx, groups, threads, requests, pending, eng,
                 tester, pingpong, lifecycle>>

\* The runtime logs a record of some level on the app thread.
RuntimeLog ==
  /\ logger.emitted < MaxRuntimeLogs
  /\ logger.threads["app_thread"].pc = "idle"
  /\ \E i \in DOMAIN LogLevels :
       LoggerBecomes([logger EXCEPT
                        !.emitted = @ + 1,
                        !.threads["app_thread"] =
                           [todo |-> <<RuntimeRecord(LogLevels[i])>>,
                            h |-> 1, pc |-> "decide"]],
                     "runtime_log", i)

\* The extension gets the hello_world command of the test: on_cmd begins.
ExtensionOnCmd ==
  /\ logger.on_cmd_calls = 0
  /\ logger.threads["extension_thread"].pc = "idle"
  /\ LoggerBecomes([logger EXCEPT
                      !.on_cmd_calls = @ + 1,
                      !.threads["extension_thread"] =
                         [todo |-> OnCmdRecords, h |-> 1, pc |-> "decide"]],
                   "on_cmd", 0)

\* A logging thread consults the handler it is at.
HandlerLog ==
  \E t \in LogThreads :
    /\ logger.threads[t].pc = "decide"
    /\ LET handler == logger.handlers[logger.threads[t].h]
       IN HandlerAccepts(handler.matchers, Head(logger.threads[t].todo)) =>
            SinkFree(logger, handler.path)
    /\ LoggerBecomes(handler_log(logger, t), "handler_log", t)

\* A logging thread completes the line it began.
HandlerLogFinish ==
  \E t \in LogThreads :
    /\ logger.threads[t].pc = "writing"
    /\ LoggerBecomes(handler_log_finish(logger, t), "handler_log_finish", t)

NextLogger ==
  \/ RuntimeLog
  \/ ExtensionOnCmd
  \/ HandlerLog
  \/ HandlerLogFinish

SpecLogger == InitLogger /\ [][NextLogger]_vars

\* The pieces written to the file of the test.
LogFile == logger.sinks["category_filter_test.log"].file

\* The file holds a complete line of handler h for the message.
LineWritten(h, message) ==
  \E i \in DOMAIN LogFile :
    /\ LogFile[i].handler = h
    /\ LogFile[i].record.message = message
    /\ LogFile[i].part = 2

\* C22: with handler A = [{ten:runtime, info}] and handler B =
\* [{ten:runtime, off}, {debug}] on one file, no DEBUG record of category
\* ten:runtime is written by either handler, handler B writes no record of
\* ten:runtime at any level, and once on_cmd of the extension has returned
\* its DEBUG and INFO records are in the file.
C22_OffRuleSuppressesCategory ==
  /\ \A i \in DOMAIN LogFile :
       /\ LogFile[i].record.category = TEN_RUNTIME =>
            /\ LogFile[i].record.level # "debug"
            /\ LogFile[i].handler # 2
            /\ LevelRank(LogFile[i].record.level) >= LevelRank("info")
  /\ logger.on_cmd_results = 1 =>
       /\ LineWritten(2, "extension_debug_log_should_appear")
       /\ LineWritten(2, "extension_info_log_should_appear")

\* C22 witness: the runtime logged a DEBUG and an INFO record and the
\* extension ran on_cmd; the file holds the INFO record of the runtime and
\* both records of the extension.
C22_Witness ==
  /\ logger.on_cmd_results = 1
  /\ logger.emitted = 2
  /\ logger.threads["app_thread"].pc = "idle"
  /\ LineWritten(1, "runtime")
  /\ LineWritten(2, "extension_debug_log_should_appear")
  /\ LineWritten(2, "extension_info_log_should_appear")
  /\ Len(LogFile) = 6

(***************************************************************************)
(* The matcher of one handler, for any rule list and any event.            *)
(***************************************************************************)

TEN_APP == <<"t", "e", "n", ":", "a", "p", "p">>

\* The categories a rule may name: one exactly, two by a glob.
MatcherPatterns ==
  {TEN_RUNTIME,
   <<"t", "e", "n", ":", "*">>,
   <<"t", "e", "s", "t", "_", "?", "x", "t", "*", "n">>}

MatcherRules ==
  {CategoryRule(c, l) : c \in MatcherPatterns, l \in {"off", "debug", "warn"}}
    \cup {LevelRule(l) : l \in {"off", "debug", "warn"}}

MatcherRuleLists ==
  UNION {[1..n -> MatcherRules] : n \in 0..MaxRules}

MatcherEvents ==
  {[category |-> c, level |-> l, message |-> "event"] :
     c \in {TEN_RUNTIME, TEN_APP, TEST_EXTENSION},
     l \in {"trace", "debug", "info", "error"}}

InitMatcher ==
  /\ NoGraph
  /\ op = [name |-> "create", arg |-> 0]
  /\ tester = TesterInit
  /\ pingpong = PingPongInit
  /\ lifecycle = LifecycleIdle
  /\ \E rules \in MatcherRuleLists :
       logger = LoggerInit(<<[matchers |-> rules, path |-> "matcher.log"]>>)

\* The handler decides about an event.
HandlerDecide ==
  \E ev \in MatcherEvents :
    LoggerBecomes(logger, "handler_decide",
                  [event |-> ev,
                   written |-> HandlerAccepts(logger.handlers[1].matchers,
                                              ev)])

NextMatcher == HandlerDecide

SpecMatcher == InitMatcher /\ [][NextMatcher]_vars

\* C23: for any ordered rule list and any event the decision is that of the
\* first rule that matches (category absent or matching the glob, event
\* level at least the rule level, off matching to drop); rules after it do
\* not count, and without a matching rule the event is dropped.
C23_FirstMatchDecides ==
  [][op'.name = "handler_decide" =>
       LET rules == logger.handlers[1].matchers
           ev == op'.arg.event
           Matches(rule) ==
             /\ \/ ~rule.has_category
                \/ GlobMatch(rule.category, ev.category)
             /\ \/ rule.level = "off"
                \/ LevelRank(ev.level) >= LevelRank(rule.level)
           matching == {i \in DOMAIN rules : Matches(rules[i])}
       IN IF matching = {} THEN ~op'.arg.written
          ELSE LET first == CHOOSE i \in matching :
                              \A j \in matching : i <= j
               IN op'.arg.written = (rules[first].level # "off")]_vars

\* C23 witness: a list whose first rule is an off rule that matches and
\* whose second rule would write the event; the event is dropped.
C23_Witness ==
  /\ op.name = "handler_decide"
  /\ Len(logger.handlers) = 1
  /\ LET rules == logger.handlers[1].matchers
     IN /\ Len(rules) = 2
        /\ rules[1] = CategoryRule(<<"t", "e", "n", ":", "*">>, "off")
        /\ rules[2] = LevelRule("debug")
        /\ op.arg.event.category = TEN_APP
        /\ op.arg.event.level = "error"
        /\ ~op.arg.written

\* C24: the handlers that name one file write through one sink, and the
\* pieces of a line are never parted by a piece of another line: each first
\* piece is followed by its own second piece, or is the last piece of the
\* file while its thread holds the sink.
C24_LinesNeverInterleave ==
  /\ \A i, j \in DOMAIN logger.handlers :
       logger.handlers[i].path = logger.handlers[j].path
  /\ Cardinality(DOMAIN logger.sinks) = 1
  /\ \A path \in DOMAIN logger.sinks :
       LET file == logger.sinks[path].file
       IN \A i \in DOMAIN file :
            IF file[i].part = 2
            THEN IF i = 1 THEN FALSE
                 ELSE file[i - 1] = [file[i] EXCEPT !.part = 1]
            ELSE IF i = Len(file)
                 THEN logger.sinks[path].lock = file[i].thread
                 ELSE file[i + 1] = [file[i] EXCEPT !.part = 2]

\* C24 witness: handler A is in the middle of a line of the runtime while
\* the extension thread has a record for handler B, which writes to the same
\* file, and a line of handler B is in the file already.
C24_Witness ==
  /\ logger.sinks["category_filter_test.log"].lock = "app_thread"
  /\ logger.threads["app_thread"].h = 1
  /\ logger.threads["extension_thread"].pc = "decide"
  /\ logger.threads["extension_thread"].h = 2
  /\ HandlerAccepts(logger.handlers[2].matchers,
                    Head(logger.threads["extension_thread"].todo))
  /\ LineWritten(2, "extension_debug_log_should_appear")

(***************************************************************************)
(* Message order: next to the ping-pong, extension_1 submits further       *)
(* test_cmd_from_1 commands of its own accord, so that several commands of *)
(* one source, destination and name are on their way at once.              *)
(***************************************************************************)

\* Number of commands submitted besides those of the ping-pong.
MaxSubmits == 2

\* Number of rounds of the ping-pong followed with these commands.
MaxOrderRounds == 2

\* The running extension_1 submits one more test_cmd_from_1.
OrderSubmit ==
  /\ pingpong.started
  /\ ~pingpong.app_closing
  /\ pingpong.submitted < MaxSubmits
  /\ PingPongBecomes(send_cmd([pingpong EXCEPT !.submitted = @ + 1],
                              "test_cmd_from_1", <<>>),
                     "extension_1.send_cmd", 0)

\* The thread of extension_1 takes the next command from its inbox, in the
\* first rounds of the ping-pong.
OrderExt1OnCmd ==
  /\ pingpong.cnt < MaxOrderRounds
  /\ Ext1OnCmd

NextOrder ==
  \/ OrderSubmit
  \/ Ext1OnStart
  \/ OrderExt1OnCmd
  \/ Ext2OnCmd

SpecOrder == InitPingPong /\ [][NextOrder]_vars

\* C25: commands of one source, destination and name are observed in the
\* order they were submitted: extension_2 never has a test_cmd_from_1 while
\* one sent before it is still on its way, and each on_cmd of extension_2
\* takes the oldest test_cmd_from_1 not yet received; the same holds of the
\* test_cmd_from_2 commands of extension_2 at extension_1.
C25_ObservedInSubmissionOrder ==
  /\ [](\A name \in {"test_cmd_from_1", "test_cmd_from_2"} :
          \A i, j \in Sent(name) :
            i < j /\ pingpong.cmds[j].received => pingpong.cmds[i].received)
  /\ [][op'.name \in {"extension_1.on_cmd", "extension_2.on_cmd"} =>
          \A i \in Sent(pingpong.cmds[op'.arg].name) :
            i < op'.arg => pingpong.cmds[i].received]_vars

\* C25 witness: three test_cmd_from_1 commands were on their way to
\* extension_2 at once, and extension_2 has received all three.
C25_Witness ==
  /\ op.name = "extension_2.on_cmd"
  /\ pingpong.submitted = 2
  /\ Sent("test_cmd_from_1") = {1, 2, 3}
  /\ Received("test_cmd_from_1") = {1, 2, 3}
  /\ Len(pingpong.inbox_1) = 3

(***************************************************************************)
(* Looking up the info of an extension in a context whose lists were       *)
(* installed by a start.                                                   *)
(***************************************************************************)

\* Longest list of extension infos installed for the lookups.
MaxInfos == 2

OtherGraphId == "graph_2"

\* A const char * argument: a string, or NULL.
Str(s) == [null |-> FALSE, str |-> s]

NullStr == [null |-> TRUE, str |-> ""]

\* The extension infos a StartGraph command may carry.
LookupInfos ==
  {[app_uri |-> a, graph_id |-> g, extension_name |-> n,
    extension_addon_name |-> "ext_addon", extension_group_name |-> gn] :
     a \in AppUris, g \in {ThisGraphId, OtherGraphId},
     n \in {"ext_1", "ext_2"}, gn \in {"group_1", "group_2"}}

LookupInfoLists == UNION {[1..n -> LookupInfos] : n \in 0..MaxInfos}

\* A lookup that passes over the graph id.
RECURSIVE get_extension_info_by_name_in_any_graph(_, _, _, _)
get_extension_info_by_name_in_any_graph(infos, app_uri, graph_id, extension_name) ==
  IF infos = <<>> THEN NullInfo
  ELSE LET extension_info == Head(infos)
       IN IF ~app_uri.null /\ extension_info.app_uri # app_uri.str
          THEN get_extension_info_by_name_in_any_graph(
                 Tail(infos), app_uri, graph_id, extension_name)
          ELSE IF /\ ~extension_name.null
                  /\ extension_info.extension_name # extension_name.str
          THEN get_extension_info_by_name_in_any_graph(
                 Tail(infos), app_uri, graph_id, extension_name)
          ELSE extension_info

\* ten_extension_context_get_extension_info_by_name: the loop over
\* extensions_info_from_graph; an info is passed over when its app_uri, its
\* graph_id (if one is given) or its name differs, the first that is left is
\* the result.
RECURSIVE ten_extension_context_get_extension_info_by_name(_, _, _, _)
ten_extension_context_get_extension_info_by_name(infos, app_uri, graph_id, extension_name) ==
  IF infos = <<>> THEN NullInfo
  ELSE LET extension_info == Head(infos)
       IN IF ~app_uri.null /\ extension_info.app_uri # app_uri.str
          THEN ten_extension_context_get_extension_info_by_name(
                 Tail(infos), app_uri, graph_id, extension_name)
          ELSE IF ~graph_id.null /\ extension_info.graph_id # graph_id.str
          THEN ten_extension_context_get_extension_info_by_name(
                 Tail(infos), app_uri, graph_id, extension_name)
          ELSE IF /\ ~extension_name.null
                  /\ extension_info.extension_name # extension_name.str
          THEN ten_extension_context_get_extension_info_by_name(
                 Tail(infos), app_uri, graph_id, extension_name)
          ELSE extension_info

\* ten_extension_context_get_extension_group_name.
ten_extension_context_get_extension_group_name(infos, app_uri, graph_id, extension_name) ==
  LET extension_info == ten_extension_context_get_extension_info_by_name(
                          infos, app_uri, graph_id, extension_name)
  IN IF extension_info = NullInfo THEN NullStr
     ELSE Str(extension_info.extension_group_name)

\* The context of a started graph of the app ThisAppUri.
InitLookup ==
  /\ build = "release"
  /\ \E infos \in LookupInfoLists :
       /\ cmd = [extension_groups_info |-> <<>>, extensions_info |-> <<>>]
       /\ ctx = [ten_extension_context_create(0) EXCEPT
                   !.extensions_info_from_graph = infos]
  /\ groups = <<>>
  /\ threads = <<>>
  /\ requests = <<>>
  /\ pending = {}
  /\ eng = EngineInit
  /\ op = [name |-> "create", arg |-> 0]
  /\ tester = TesterInit
  /\ pingpong = PingPongInit
  /\ lifecycle = LifecycleIdle
  /\ logger = LoggerIdle

\* A caller asks for the info and the group name of an extension.
GetExtensionGroupName ==
  \E app_uri \in {Str(ThisAppUri), Str(OtherAppUri), Str("")},
     graph_id \in {NullStr, Str(ThisGraphId), Str(OtherGraphId), Str("")},
     extension_name \in {Str("ext_1"), Str("ext_2")} :
    Becomes(World, "get_extension_group_name",
            [app_uri |-> app_uri, graph_id |-> graph_id,
             extension_name |-> extension_name,
             extension_info |->
               ten_extension_context_get_extension_info_by_name(
                 ctx.extensions_info_from_graph, app_uri, graph_id,
                 extension_name),
             extension_group_name |->
               ten_extension_context_get_extension_group_name(
                 ctx.extensions_info_from_graph, app_uri, graph_id,
                 extension_name)])

NextLookup == GetExtensionGroupName

SpecLookup == InitLookup /\ [][NextLookup]_vars

\* C26: an empty location field means the current one: the lookup with an
\* empty app_uri gives what the lookup with the URI of this app gives, and
\* the lookup with an empty graph_id what the lookup with the id of this
\* graph gives.
C26_EmptyFieldMeansCurrent ==
  [][op'.name = "get_extension_group_name" =>
       LET a == op'.arg
           infos == ctx.extensions_info_from_graph
           current(field, value) ==
             IF ~field.null /\ field.str = "" THEN Str(value) ELSE field
       IN a.extension_info =
            ten_extension_context_get_extension_info_by_name(
              infos, current(a.app_uri, ThisAppUri),
              current(a.graph_id, ThisGraphId), a.extension_name)]_vars

\* C28: the lookup returns the first info of the list, in list order, whose
\* app_uri and extension_name equal the arguments and whose graph_id equals
\* the argument when one is given; it returns null exactly when no info is
\* such, and then the group name is null as well.
C28_FirstMatchingInfo ==
  [][op'.name = "get_extension_group_name" =>
       LET a == op'.arg
           infos == ctx.extensions_info_from_graph
           matching ==
             {i \in DOMAIN infos :
                /\ infos[i].app_uri = a.app_uri.str
                /\ infos[i].extension_name = a.extension_name.str
                /\ a.graph_id.null \/ infos[i].graph_id = a.graph_id.str}
       IN IF matching = {}
          THEN /\ a.extension_info = NullInfo
               /\ a.extension_group_name = NullStr
          ELSE LET first == CHOOSE i \in matching :
                              \A j \in matching : i <= j
               IN /\ a.extension_info = infos[first]
                  /\ a.extension_info # NullInfo
                  /\ a.extension_group_name =
                       Str(infos[first].extension_group_name)]_vars

\* C28 witness: two infos of one app and name in different graphs; the
\* lookup without a graph id returns the first of them.
C28_Witness ==
  /\ op.name = "get_extension_group_name"
  /\ Len(ctx.extensions_info_from_graph) = 2
  /\ ctx.extensions_info_from_graph[1].graph_id = OtherGraphId
  /\ ctx.extensions_info_from_graph[2].graph_id = ThisGraphId
  /\ ctx.extensions_info_from_graph[1].extension_group_name = "group_2"
  /\ ctx.extensions_info_from_graph[2].extension_group_name = "group_1"
  /\ \A i \in 1..2 :
       /\ ctx.extensions_info_from_graph[i].app_uri = ThisAppUri
       /\ ctx.extensions_info_from_graph[i].extension_name = "ext_1"
  /\ op.arg.app_uri = Str(ThisAppUri)
  /\ op.arg.graph_id = NullStr
  /\ op.arg.extension_name = Str("ext_1")
  /\ op.arg.extension_group_name = Str("group_2")

\* The extension threads that were started and have not been reclaimed.
RunningThreads(ts) == {t \in StartedThreads(ts) : ~ts[t].reclaimed}

\* C27: the info lists of the context are never written while an extension
\* thread may be running: a step that changes a list is the install, into
\* empty lists before any thread was started, or the clear of the destroy,
\* after which no started thread is left unreclaimed.
C27_InfoListsWrittenOnlyWithoutThreads ==
  [][\/ /\ ctx'.extensions_info_from_graph = ctx.extensions_info_from_graph
        /\ ctx'.extension_groups_info_from_graph =
             ctx.extension_groups_info_from_graph
     \/ /\ ctx.extensions_info_from_graph = <<>>
        /\ ctx.extension_groups_info_from_graph = <<>>
        /\ StartedThreads(threads) = {}
     \/ /\ ~ctx'.signature
        /\ ctx'.extensions_info_from_graph = <<>>
        /\ ctx'.extension_groups_info_from_graph = <<>>
        /\ RunningThreads(threads') = {}]_vars

\* C29: the start stops at the first local group whose addon cannot be
\* resolved: the requests issued are those of the local groups declared
\* before it, in order and all still pending, none is issued for a group
\* declared after it, and the error names the addon of that first group.
C29_StartStopsAtFirstFailure ==
  [][op'.name = "start_extension_group"
       /\ UnresolvedLocal(cmd.extension_groups_info) # {} =>
       LET infos == cmd.extension_groups_info
           bad == UnresolvedLocal(infos)
           first == CHOOSE i \in bad : \A k \in bad : i <= k
           before == LocalGroupInfos(SubSeq(infos, 1, first - 1))
       IN /\ requests' =
               [i \in 1..Len(before) |->
                  [addon_name |-> before[i].extension_group_addon_name,
                   instance_name |->
                     before[i].extension_group_instance_name]]
          /\ pending' = 1..Len(before)
          /\ \A k \in first..Len(infos) :
               \A r \in DOMAIN requests' :
                 requests'[r].instance_name #
                   infos[k].extension_group_instance_name
          /\ ~eng'.start_result
          /\ eng'.err_given =>
               eng'.err.msg = "Unable to find " \o
                                infos[first].extension_group_addon_name]_vars

\* C29 witness: the first of two local groups names an addon that is not
\* found and the second one that is; no request was issued.
C29_Witness ==
  /\ op.name = "start_extension_group"
  /\ Len(cmd.extension_groups_info) = 2
  /\ \A i \in 1..2 : cmd.extension_groups_info[i].app_uri = ThisAppUri
  /\ cmd.extension_groups_info[1].extension_group_addon_name = "does_not_exist"
  /\ cmd.extension_groups_info[2].extension_group_addon_name = "custom_group"
  /\ requests = <<>>
  /\ pending = {}
  /\ ~eng.start_result
  /\ eng.err.msg = "Unable to find does_not_exist"

\* C30: when ten_env_tester_proxy_notify returns false the log call returns
\* the error at once: it never waits for the completion event, even in sync
\* mode, the log is never executed, nothing is left in the inbox of the
\* tester thread, and the log context was released exactly once.
C30_NotifyFailureReturnsError ==
  /\ [](\A id \in DOMAIN tester.calls :
          tester.calls[id].notify = "false" =>
            /\ tester.calls[id].pc = "returned"
            /\ tester.calls[id].result = TEN_ERROR_CODE_GENERIC
            /\ tester.calls[id].ctx.created
            /\ ~tester.calls[id].ctx.live
            /\ tester.calls[id].ctx.destroys = 1
            /\ id \notin ExecutedCalls
            /\ \A k \in DOMAIN tester.inbox : tester.inbox[k] # id)
  /\ [][op'.name = "log" /\ tester'.calls[op'.arg].notify = "false" =>
          /\ tester'.inbox = tester.inbox
          /\ tester'.logs = tester.logs
          /\ tester'.gil = tester.gil]_vars

\* C30 witness: a sync call whose notify failed has returned the error with
\* its context released, next to a call that was notified and executed.
C30_Witness ==
  /\ Len(tester.calls) = 2
  /\ tester.calls[1].notify = "true"
  /\ 1 \in ExecutedCalls
  /\ tester.calls[2].sync
  /\ tester.calls[2].notify = "false"
  /\ tester.calls[2].pc = "returned"
  /\ tester.calls[2].result = TEN_ERROR_CODE_GENERIC
  /\ ~tester.calls[2].ctx.live

(***************************************************************************)
(* The ping-pong under fair delivery: an extension thread that has a       *)
(* command in its inbox dispatches it, on_start of a started graph runs,   *)
(* and the app takes the CloseApp command sent to it.                      *)
(***************************************************************************)

SpecPingPongFair ==
  /\ InitPingPong
  /\ [][NextPingPong]_vars
  /\ WF_vars(Ext1OnStart)
  /\ WF_vars(Ext1OnCmd)
  /\ WF_vars(Ext2OnCmd)
  /\ WF_vars(AppOnCloseApp)

\* C31: under fair delivery the ping-pong terminates: extension_1 eventually
\* sends CloseApp, it sends CloseApp at most once, and every test_cmd_from_1
\* was sent before the CloseApp.
C31_PingPongTerminates ==
  /\ <>(Sent("close_app") # {})
  /\ [](Cardinality(Sent("close_app")) <= 1)
  /\ [](\A c \in Sent("close_app") :
          \A i \in Sent("test_cmd_from_1") : i < c)
  /\ [][Sent("close_app") # {} =>
          Len(pingpong'.cmds) = Len(pingpong.cmds)]_vars

\* C31 witness: CloseApp was sent, the app took it, and the command sent
\* last is the CloseApp.
C31_Witness ==
  /\ pingpong.app_closing
  /\ Cardinality(Sent("close_app")) = 1
  /\ Len(pingpong.cmds) \in Sent("close_app")
  /\ pingpong.inbox_1 = <<>>
  /\ pingpong.inbox_2 = <<>>

\* C32: after ten_extension_context_start_extension_group returned false no
\* extension thread of the context is started, whatever callbacks of the
\* groups requested before the failure arrive: the threads registered stay
\* fewer than the local groups the command declares.
C32_FailedStartStartsNoThread ==
  eng.start_called /\ ~eng.start_result =>
    /\ StartedThreads(threads) = {}
    /\ eng.context_start_calls = 0
    /\ Len(ctx.extension_threads) < Len(LocalGroupInfos(cmd.extension_groups_info))
    /\ Cardinality(DOMAIN threads) < Len(LocalGroupInfos(cmd.extension_groups_info))

\* C32 witness: the second of two local groups failed the start and the
\* callback of the first, requested before it, has run since.
C32_Witness ==
  /\ eng.start_called
  /\ ~eng.start_result
  /\ Len(LocalGroupInfos(cmd.extension_groups_info)) = 2
  /\ op.name = "create_extension_group_done"
  /\ ctx.extension_threads = <<1>>
  /\ threads[1].start_calls = 0
  /\ pending = {}

\* C33: once close() was requested on the context no extension thread is
\* added to extension_threads and none is started: a group-created callback
\* that was pending at the close registers and starts nothing.
C33_NoThreadAfterClose ==
  [][eng.context_close_calls > 0 =>
       /\ DOMAIN threads' = DOMAIN threads
       /\ \A t \in SeqToSet(ctx'.extension_threads) :
            t \in SeqToSet(ctx.extension_threads)
       /\ \A t \in DOMAIN threads :
            threads'[t].start_calls = threads[t].start_calls]_vars

(***************************************************************************)
(* The context under every sequence of calls of its owner: besides the     *)
(* steps of Spec the engine may call ten_extension_context_on_close at any *)
(* time, and close() and thread-closed reports may arrive after the        *)
(* terminal step destroyed the context.  A handler that runs on the freed  *)
(* context fails its integrity TEN_ASSERT in a debug build; in a release   *)
(* build the behaviour is undefined: the process crashes, or the handler   *)
(* runs on the memory as the destroy left it.                              *)
(***************************************************************************)

AssertIntegrity == "check_integrity: signature of the extension context"

\* The outcomes of handler on the world w whose context was freed; ran is
\* the world the handler leaves when it runs on the stale memory.
OnFreedContext(w, ran) ==
  LET w1 == [TEN_ASSERT(w, w.ctx.signature, AssertIntegrity)
             EXCEPT !.eng.use_after_free = TRUE]
  IN IF w1.eng.aborted THEN {w1}
     ELSE {[w1 EXCEPT !.eng.aborted = TRUE],
           [ran EXCEPT !.eng.use_after_free = TRUE,
                       !.eng.failed = w1.eng.failed]}

\* The engine calls ten_extension_context_on_close, whether or not close()
\* was requested and a thread reported.
OnCloseCall ==
  /\ Alive
  /\ Becomes(ten_extension_context_on_close(World), "on_close_call", 0)

\* The owner calls close() on the context after the terminal step.
CloseOnDestroyedContext ==
  /\ ~ctx.signature
  /\ ~eng.aborted
  /\ eng.context_close_calls < MaxCloseCalls
  /\ \E w \in OnFreedContext(
                World,
                ten_extension_context_close(
                  [World EXCEPT !.eng.context_close_calls = @ + 1])) :
       Becomes(w, "close", 0)

\* A thread that was told to close reports after the terminal step.
ThreadClosedOnDestroyedContext ==
  /\ ~ctx.signature
  /\ ~eng.aborted
  /\ \E t \in DOMAIN threads :
       /\ threads[t].close_calls > 0
       /\ ~threads[t].reclaimed
       /\ \E w \in OnFreedContext(
                     World, ten_engine_on_extension_thread_closed(World, t)) :
            Becomes(w, "on_close", t)

NextAnyCalls ==
  \/ Next
  \/ OnCloseCall
  \/ CloseOnDestroyedContext
  \/ ThreadClosedOnDestroyedContext

SpecAnyCalls == Init /\ [][NextAnyCalls]_vars

\* C34: the terminal step of a context runs at most once: the ten_env of the
\* engine is closed, on_closed is invoked and the context is destroyed at
\* most one time each, for every sequence of close() calls and reports.
C34_TerminalStepAtMostOnce ==
  /\ eng.ten_env_close_calls <= 1
  /\ eng.on_closed_calls <= 1
  /\ eng.destroy_calls <= 1

\* C35: the terminal step never runs before close() was requested: as long
\* as close() was not called the ten_env is not closed, on_closed is not
\* invoked and the context is not destroyed, whatever value
\* extension_threads_total_cnt started with.
C35_NoTerminalStepBeforeClose ==
  eng.context_close_calls = 0 =>
    /\ eng.ten_env_close_calls = 0
    /\ eng.on_closed_calls = 0
    /\ eng.destroy_calls = 0
    /\ ctx.signature

\* C36: every group-created callback runs while the engine, its context and
\* its StartGraph command are alive: no callback runs on a context that the
\* terminal step destroyed, in particular not after a start that failed.
C36_CallbackFindsEngineAlive ==
  [][op'.name = "create_extension_group_done" =>
       /\ ctx.signature
       /\ ~eng'.use_after_free]_vars

\* C37: the log context of a call is destroyed at most once and is not used
\* after it: the task reads a live context; a sync caller that is about to
\* wait or waits has a live context, which the task leaves alone but for
\* setting the event; the context is destroyed by the task in async mode, by
\* the woken caller in sync mode and by the call itself when the notify
\* fails, and a call that came back left no context behind but that of an
\* async call whose task has not run yet.
C37_LogCtxDestroyedOnce ==
  /\ [](\A id \in DOMAIN tester.calls :
          LET call == tester.calls[id]
          IN /\ call.ctx.destroys <= 1
             /\ call.ctx.live <=> (call.ctx.created /\ call.ctx.destroys = 0)
             /\ (call.sync /\ call.pc \in {"notified", "waiting"}) =>
                  call.ctx.live
             /\ (call.pc = "returned" /\ call.ctx.created) =>
                  IF call.notify = "true" /\ ~call.sync
                  THEN call.ctx.live <=> id \notin ExecutedCalls
                  ELSE call.ctx.destroys = 1)
  /\ [](\A i \in DOMAIN tester.logs : tester.logs[i].ctx_live)
  /\ [][\A id \in DOMAIN tester.calls :
          tester'.calls[id].ctx.destroys # tester.calls[id].ctx.destroys =>
            /\ tester.calls[id].ctx.live
            /\ op'.arg = id
            /\ op'.name = IF tester.calls[id].sync THEN "log_woken"
                          ELSE "proxy_notify"]_vars
  /\ [][op'.name = "proxy_notify" /\ tester.calls[op'.arg].sync =>
          tester'.calls[op'.arg].ctx =
            [tester.calls[op'.arg].ctx EXCEPT !.completed = "set"]]_vars

\* C37 witness: a sync call and an async call both came back with None and
\* each context was destroyed once, the first by its caller, the second by
\* the task.
C37_Witness ==
  /\ Len(tester.calls) = 2
  /\ tester.calls[1].sync /\ ~tester.calls[2].sync
  /\ \A id \in 1..2 :
       /\ tester.calls[id].pc = "returned"
       /\ tester.calls[id].result = Py_None
       /\ tester.calls[id].ctx.destroys = 1
       /\ id \in ExecutedCalls
  /\ op.name = "proxy_notify"
  /\ op.arg = 2

(***************************************************************************)
(* The log call with threads that run: a caller past the notify goes on, a *)
(* waiter whose event is set wakes once the GIL is free, and the tester    *)
(* thread runs the tasks of its inbox.                                     *)
(***************************************************************************)

SpecTesterFair ==
  /\ InitTester
  /\ [][NextTester]_vars
  /\ WF_vars(LogAfterNotify)
  /\ WF_vars(LogWoken)
  /\ WF_vars(TesterRunTask)

\* C38: a sync log call does not hold the GIL while it waits for the
\* completion event: it gives the GIL up as it starts to wait and takes it
\* back, free, when it wakes; and no wake-up is lost: once the task of a
\* sync call has run the event stays set until the caller has seen it, so
\* the call returns None whether the task ran before or after the caller
\* began to wait.
C38_SyncWaitsWithoutGIL ==
  /\ [](\A id \in DOMAIN tester.calls :
          tester.calls[id].pc = "waiting" =>
            /\ tester.gil # tester.calls[id].caller
            /\ id \in ExecutedCalls => tester.calls[id].ctx.completed = "set")
  /\ [][op'.name = "log_after_notify" /\ tester.calls[op'.arg].sync =>
          /\ tester.gil = tester.calls[op'.arg].caller
          /\ tester'.gil = "none"
          /\ tester'.calls[op'.arg].pc = "waiting"]_vars
  /\ [][op'.name = "log_woken" =>
          /\ tester.gil = "none"
          /\ tester'.gil = "none"
          /\ tester.calls[op'.arg].ctx.completed = "set"]_vars
  /\ \A id \in 1..MaxLogCalls :
       (IF id \in DOMAIN tester.calls
        THEN tester.calls[id].sync /\ id \in ExecutedCalls
        ELSE FALSE)
         ~> (IF id \in DOMAIN tester.calls
             THEN /\ tester.calls[id].pc = "returned"
                  /\ tester.calls[id].result = Py_None
             ELSE FALSE)

\* C38 witness: the task of a sync call ran before its caller began to wait:
\* the caller has just released the GIL and finds the event set.
C38_Witness ==
  /\ op.name = "log_after_notify"
  /\ Len(tester.calls) >= op.arg
  /\ op.arg >= 1
  /\ tester.calls[op.arg].sync
  /\ tester.calls[op.arg].pc = "waiting"
  /\ tester.calls[op.arg].ctx.completed = "set"
  /\ tester.gil = "none"

\* C39: the two extensions of the ping-pong strictly alternate: the number
\* of test_cmd_from_1 sent minus the number of test_cmd_from_2 sent is 0 or
\* 1, two commands sent one after the other never bear the same name, and at
\* most one ping-pong command is in flight, that is sent and not received.
C39_StrictAlternation ==
  LET from_1 == Cardinality(Sent("test_cmd_from_1"))
      from_2 == Cardinality(Sent("test_cmd_from_2"))
      in_flight == (Sent("test_cmd_from_1") \ Received("test_cmd_from_1"))
                     \cup
                   (Sent("test_cmd_from_2") \ Received("test_cmd_from_2"))
  IN /\ from_1 - from_2 \in {0, 1}
     /\ \A id \in DOMAIN pingpong.cmds \ {1} :
          pingpong.cmds[id].name # pingpong.cmds[id - 1].name
     /\ Cardinality(in_flight) <= 1
     /\ Len(pingpong.inbox_1) + Len(pingpong.inbox_2) = Cardinality(in_flight)

\* C39 witness: after three full rounds extension_1 has sent its fourth
\* command, the only one in flight, and extension_2 has not answered it yet.
C39_Witness ==
  /\ op.name = "extension_1.on_cmd"
  /\ pingpong.cnt = 3
  /\ Cardinality(Sent("test_cmd_from_1")) = 4
  /\ Cardinality(Sent("test_cmd_from_2")) = 3
  /\ Len(pingpong.inbox_2) = 1
  /\ pingpong.inbox_1 = <<>>

====
